---- MODULE Spec2Model ----
(***************************************************************************)
(* Model of the quipslop round engine: the game loop runGame (game.ts),    *)
(* the admin handlers of server.ts that act on the shared GameState        *)
(* (reset, pause, resume), the retry wrapper withRetry and the role        *)
(* assignment built on shuffle.                                            *)
(*                                                                         *)
(* JavaScript runs one handler at a time up to its next await, so every    *)
(* action below is one such run: the continuation of an awaited backend    *)
(* call or timer, or the synchronous part of an HTTP handler.              *)
(***************************************************************************)
EXTENDS Integers, Sequences, FiniteSets, TLC

(***************************************************************************)
(* Bounds of the model.                                                    *)
(***************************************************************************)
\* members of MODELS taken into the pool of the game loop
NumModels == 4
\* largest round number the loop may create
MaxRoundNum == 2
\* largest value of the generation counter (number of resets)
MaxGen == 1
\* backend calls (withRetry invocations) started in one behaviour
MaxCalls == 6
\* Math.random() returns k / RandDen for k in 0 .. RandDen - 1
RandDen == 10
\* voters of a round of the CLI variant
NumCliVoters == 5
\* rounds and workers of the bulk runner (1000 and 100 in bulk-test.ts)
TOTAL_ROUNDS == 6
CONCURRENCY == 3
\* the rate limiter: calls admitted per window, length of the window and
\* span of the clock, in ticks of Date.now()
RateLimit == 2
WindowMs == 2
MaxClock == 4
\* websocket connections that send vote messages
NumConns == 3
\* reset requests whose body is being read at one time
MaxParsing == 1

\* the values of Math.random() (numerators over RandDen) the game loop of
\* the model draws for the coin flip of a vote: one on each side of 0.5
GameDraws == {0, 6}

\* and for the shuffle of a round: a low value and one that moves the last
\* element elsewhere (every value is drawn in the role assignments below)
ShuffleDraws == {0, 3}

(***************************************************************************)
(* Program constants.                                                      *)
(***************************************************************************)
\* runs = Infinity (server.ts: runs=infinite)
Infinity == -1
\* undefined optional number (scoreA, scoreB, finishedAt)
Undef == -1
\* number of the last archived round found at start-up, when there is one
PriorNum == 1

ALL_MODELS ==
  << "Gemini 3.1 Pro", "Kimi K2", "DeepSeek 3.2", "GPT-5.2",
     "Opus 4.6", "Sonnet 4.6", "Grok 4.1" >>

MODELS == SubSeq(ALL_MODELS, 1, NumModels)

ModelNames == { MODELS[i] : i \in 1 .. Len(MODELS) }

NoModel == "undefined"

Range(s) == { s[i] : i \in DOMAIN s }

Last(s) == s[Len(s)]

(***************************************************************************)
(* shuffle: Fisher-Yates, from the last index down to 1 (0-based), the     *)
(* index j = floor(Math.random() * (i + 1)).  draws[i] is the numerator of *)
(* the random value drawn at index i.                                      *)
(***************************************************************************)
RandomIndex(draw, i) == (draw * (i + 1)) \div RandDen

\* variant: a[i] = a[j] without the exchange
SwapLossy(a, i, j) == [a EXCEPT ![i + 1] = a[j + 1]]

\* line 115: [a[i], a[j]] = [a[j], a[i]]
Swap(a, i, j) ==[a EXCEPT ![i + 1] = a[j + 1], ![j + 1] = a[i + 1]]

RECURSIVE ShuffleFrom(_, _, _)
ShuffleFrom(a, i, draws) ==
  IF i <= 0 THEN a
  ELSE ShuffleFrom(Swap(a, i, RandomIndex(draws[i], i)), i - 1, draws)

shuffle(arr, draws) == ShuffleFrom(arr, Len(arr) - 1, draws)

\* game.ts: the prompter votes too
GameVoters(shuffled) ==
  <<shuffled[1]>> \o SubSeq(shuffled, 4, Len(shuffled))

\* quipslop.tsx (CLI variant): only the remaining models vote
CliVoters(shuffled) == SubSeq(shuffled, 4, Len(shuffled))

(***************************************************************************)
(* Records of game.ts.                                                     *)
(***************************************************************************)
NoRound == [num |-> 0]

NoId == <<-1, 0>>

RoundIds == (0 .. MaxGen) \X (1 .. MaxRoundNum)

NewTask(m, started) ==
  [model |-> m, startedAt |-> started, finishedAt |-> Undef,
   result |-> "undefined", error |-> "undefined"]

NewVote(v) ==
  [voter |-> v, startedAt |-> 1, finishedAt |-> Undef,
   votedFor |-> NoModel, error |-> FALSE]

NewRound(n, shuffled) ==
  [num |-> n, phase |-> "prompting", prompter |-> shuffled[1],
   promptTask |-> NewTask(shuffled[1], 1), prompt |-> "undefined",
   contestants |-> <<shuffled[2], shuffled[3]>>,
   answerTasks |-> <<NewTask(shuffled[2], 0), NewTask(shuffled[3], 0)>>,
   votes |-> <<>>, scoreA |-> Undef, scoreB |-> Undef]

ZeroScores == [m \in ModelNames |-> 0]

(***************************************************************************)
(* State.                                                                  *)
(*   GameState (game.ts, server.ts gameState): completed, active, scores,  *)
(*     done, isPaused, generation.  Round objects live in the heap         *)
(*     `rounds`; completed and active hold references (ids) to them.       *)
(*   archive: the rows of the rounds table (db.ts saveRound /              *)
(*     clearAllRounds), each a snapshot of the round saved.                *)
(*   runGame's frame: pc (the await it is suspended at), runs, r,          *)
(*     endRound, roundGeneration, cur (its local `round`), voters, and     *)
(*     the state of the tasks of Promise.all: ansSt, voteSt.               *)
(*   pubs: the calls of rerender made by runGame's latest step (the        *)
(*     broadcasts of the admin handlers are not recorded in it).           *)
(*   calls: backend calls started so far.                                  *)
(***************************************************************************)
VARIABLES generation, isPaused, done, scores, completed, active, rounds,
          archive, pc, runs, r, endRound, roundGeneration, cur, voters,
          ansSt, voteSt, pubs, calls

\* withRetry's frame: its arguments (retries, and fnScript, what fn and
\* validate do at each invocation), attempt, lastErr, the await it is
\* suspended at (wrPc), the value returned or thrown (settled), the number
\* of invocations of fn (fnCalls) and the delays slept (sleeps).
VARIABLES retries, fnScript, attempt, lastErr, wrPc, settled, fnCalls, sleeps

\* one role assignment: the pool, the loop it is made for and its result
VARIABLES pool, variant, roles

retryVars == <<retries, fnScript, attempt, lastErr, wrPc, settled, fnCalls, sleeps>>

assignVars == <<pool, variant, roles>>

\* one vote: what the voter is shown and replies (ballot), and what the
\* game loop and the bulk runner record for it (recorded)
VARIABLES ballot, recorded

mapVars == <<ballot, recorded>>

\* the vote phase and the scoring of one round of the CLI variant
\* (quipslop.tsx runGame): its round object and state.scores
VARIABLES cliRound, cliScores

cliVars == <<cliRound, cliScores>>

\* the bulk runner (bulk-test.ts): its module variables, the frame of each
\* worker (where it is and the roundNum it holds), whether main has run,
\* and the calls of runRound made so far for each round number
VARIABLES currentTaskIndex, completedRounds, failedRounds, workers,
          bulkStarted, ranRound

bulkVars == <<currentTaskIndex, completedRounds, failedRounds, workers,
              bulkStarted, ranRound>>

\* the rate limiter of server.ts: the clock (Date.now()), requestWindows,
\* lastRateWindowSweep; the times at which each key was admitted, the map
\* the same calls would have left with no sweep, and the last call with
\* what it returned and would have returned with no sweep
VARIABLES clock, requestWindows, lastRateWindowSweep, admitted, unswept,
          lastCall

rateVars == <<clock, requestWindows, lastRateWindowSweep, admitted, unswept,
              lastCall>>

\* viewer votes (server.ts websocket.message): the map viewerVoters, the
\* round in gameState.active as far as the handler reads and writes it,
\* Date.now() relative to the start of the window, and for each connection
\* the side of the last message that passed the handler's tests
VARIABLES viewerVoters, viewerRound, viewerNow, latestVote

viewerVars == <<viewerVoters, viewerRound, viewerNow, latestVote>>

\* the admin requests (server.ts handleRequest): process.env.ADMIN_SECRET,
\* the reset requests waiting at `await req.json()`, and of the request
\* handled last its response status and whether its handler called
\* broadcast()
VARIABLES adminSecret, parsing, adminLast

adminVars == <<adminSecret, parsing, adminLast>>

\* the state of the parts that stand beside the game loop
sideVars == <<cliVars, bulkVars, rateVars, viewerVars, adminVars>>

gameVars ==
  << generation, isPaused, done, scores, completed, active, rounds,
     archive, pc, runs, r, endRound, roundGeneration, cur, voters,
     ansSt, voteSt, pubs, calls >>

\* server.ts getClientState: the rounds a broadcast shows, the active one
\* and the last of the history, as they are at the call
Shows(act, comp, rnds) ==
  [active |-> IF act = NoId THEN NoRound ELSE rnds[act],
   lastCompleted |-> IF comp = <<>> THEN NoRound ELSE rnds[comp[Len(comp)]]]

\* one call of rerender: runGame's generation snapshot and the generation
\* counter at the call, the done flag and the rounds it showed
Pub(by, rgen, gen, dn, shown) ==
  [by |-> by, rgen |-> rgen, gen |-> gen, done |-> dn, shown |-> shown]

\* the objects still referenced from the history or from runGame's frame
Collect(rnds, comp, c) ==
  [i \in RoundIds |-> IF i = c \/ i \in Range(comp) THEN rnds[i] ELSE NoRound]

\* endRound = startRound + runs - 1
EndOf(start, n) == IF n = Infinity THEN Infinity ELSE start + n - 1

\* variant: the loop test is r < endRound
InBudgetShort(rn, end) == end = Infinity \/ rn < end

\* r <= endRound
InBudget(rn, end) == end = Infinity \/ rn <= end

\* the round found in the archive at start-up (server.ts: allRounds)
PriorRound ==
  [num |-> PriorNum, phase |-> "done", prompter |-> MODELS[1],
   promptTask |-> [model |-> MODELS[1], startedAt |-> 1, finishedAt |-> 1,
                   result |-> "text", error |-> "undefined"],
   prompt |-> "text",
   contestants |-> <<MODELS[2], MODELS[3]>>,
   answerTasks |->
     << [model |-> MODELS[2], startedAt |-> 1, finishedAt |-> 1,
         result |-> "text", error |-> "undefined"],
        [model |-> MODELS[3], startedAt |-> 1, finishedAt |-> 1,
         result |-> "text", error |-> "undefined"] >>,
   votes |-> << [voter |-> MODELS[1], startedAt |-> 1, finishedAt |-> 1,
                 votedFor |-> MODELS[2], error |-> FALSE] >>,
   scoreA |-> 100, scoreB |-> 0]

\* variant: a tie is a win of the first contestant
InitialScoresWithTies(all) ==
  [m \in ModelNames |->
     Cardinality({ i \in DOMAIN all :
        /\ all[i].scoreA # Undef /\ all[i].scoreB # Undef
        /\ \/ all[i].scoreA >= all[i].scoreB /\ all[i].contestants[1] = m
           \/ all[i].scoreB > all[i].scoreA /\ all[i].contestants[2] = m })]

\* server.ts: initialScores rebuilt from the archived rounds
InitialScores(all) ==
  [m \in ModelNames |->
     Cardinality({ i \in DOMAIN all :
        /\ all[i].scoreA # Undef /\ all[i].scoreB # Undef
        /\ \/ all[i].scoreA > all[i].scoreB /\ all[i].contestants[1] = m
           \/ all[i].scoreB > all[i].scoreA /\ all[i].contestants[2] = m })]

RunsChoices == {2, Infinity}

GameInit ==
  /\ generation = 0
  /\ isPaused = FALSE
  /\ done = FALSE
  /\ active = NoId
  /\ \E prior \in BOOLEAN :
       /\ archive = IF prior THEN <<PriorRound>> ELSE <<>>
       /\ completed = IF prior THEN << <<0, PriorNum>> >> ELSE <<>>
       /\ rounds = [i \in RoundIds |->
                      IF prior /\ i = <<0, PriorNum>> THEN PriorRound ELSE NoRound]
       /\ scores = InitialScores(archive)
  /\ pc = "start"
  /\ runs \in RunsChoices
  /\ r = 0
  /\ endRound = 0
  /\ roundGeneration = 0
  /\ cur = NoId
  /\ voters = <<>>
  /\ ansSt = <<"idle", "idle">>
  /\ voteSt = <<>>
  /\ pubs = <<>>
  /\ calls = 0

(***************************************************************************)
(* runGame, game.ts.                                                       *)
(***************************************************************************)
\* the phase written at lines 335, 376, and 327 / 438
AnsweringPhase == "answering"

\* variant: the vote phase writes the tag of the first phase
VotingPhaseRewound == "prompting"

VotingPhase == "voting"

DonePhase == "done"

\* variant: the round is still in its voting phase while it is scored
ScoredPhaseStillVoting == VotingPhase

\* Line 438: the phase of a round that is being scored, set before the
\* standings are touched (lines 439-443).
ScoredPhase == DonePhase

InFlight == pc \in {"prompt", "answers", "votes", "display"}

\* variant: the generation checks are left out
StaleIgnored == FALSE

\* state.generation !== roundGeneration
Stale == generation # roundGeneration

\* variant: Promise.race, the phase ends with its first task
AnyReturned(st) == \E i \in DOMAIN st : st[i] = "returned"

\* every promise handed to Promise.all has settled
AllReturned(st) ==\A i \in DOMAIN st : st[i] = "returned"

\* The loop can go no further within the bounds of the model.
Capped(rn, end, comp, act, rnds, ps) ==
  /\ pc' = "capped"
  /\ r' = rn
  /\ endRound' = end
  /\ completed' = comp
  /\ active' = act
  /\ rounds' = Collect(rnds, comp, cur)
  /\ pubs' = ps
  /\ ansSt' = <<"idle", "idle">>
  /\ voteSt' = <<>>
  /\ UNCHANGED <<roundGeneration, cur, voters, done, calls>>

\* variant: the numbering of the CLI loop (quipslop.tsx line 262), which
\* starts at 1 whatever the history holds
ExpectedRoundFromOne(comp, rnds) == 1

\* Lines 257-261 and 272-273: one more than the number of the last round
\* of the history, 1 when the history is empty.
ExpectedRound(comp, rnds) ==
  IF comp = <<>> THEN 1 ELSE rnds[Last(comp)].num + 1

\* variant: the loop keeps its own counter
CounterKept(rn, expectedR) == rn

\* Lines 274-275: the counter after the re-sync test, the expected number
\* whether or not it differed.
Resynced(rn, expectedR) == IF rn # expectedR THEN expectedR ELSE rn

\* variant: the re-sync corrects the counter and leaves the end as it was
EndKept(rn, expectedR, end) == end

\* Lines 274-276: the end of the budget after the re-sync test, set anew
\* when the counter differed.
ResyncedEnd(rn, expectedR, end) ==
  IF rn # expectedR THEN EndOf(expectedR, runs) ELSE end

\* Lines 269-313: the generation snapshot, the re-sync of the round counter,
\* the role assignment, the new round, its publish and the start of the
\* prompt call.
StartRound(rn, end, comp, rnds, ps) ==
  LET expectedR == ExpectedRound(comp, rnds)
      rn2 == Resynced(rn, expectedR)
      end2 == ResyncedEnd(rn, expectedR, end)
      id == <<generation, rn2>>
  IN IF rn2 > MaxRoundNum \/ calls >= MaxCalls
     THEN Capped(rn2, end2, comp, NoId, rnds, ps)
     ELSE \E draws \in [1 .. Len(MODELS) - 1 -> ShuffleDraws] :
            LET shuffled == shuffle(MODELS, draws)
                round == NewRound(rn2, shuffled)
            IN /\ roundGeneration' = generation
               /\ r' = rn2
               /\ endRound' = end2
               /\ voters' = GameVoters(shuffled)
               /\ cur' = id
               /\ rounds' = [Collect(rnds, comp, NoId) EXCEPT ![id] = round]
               /\ active' = id
               /\ completed' = comp
               /\ pubs' = Append(ps, Pub("runGame", generation, generation, done,
                                         Shows(id, comp, [rnds EXCEPT ![id] = round])))
               /\ calls' = calls + 1
               /\ pc' = "prompt"
               /\ ansSt' = <<"idle", "idle">>
               /\ voteSt' = <<>>
               /\ UNCHANGED done

\* The for header (r <= endRound), then either the end of runGame (lines
\* 458-459), the pause gate (lines 266-268) or the next round.
LoopHead(rn, end, comp, act, rnds, ps) ==
  IF ~InBudget(rn, end)
  THEN /\ done' = TRUE
       /\ pubs' = Append(ps, Pub("runGame", roundGeneration, generation, TRUE,
                                 Shows(act, comp, rnds)))
       /\ pc' = "exit"
       /\ r' = rn
       /\ endRound' = end
       /\ completed' = comp
       /\ active' = act
       /\ rounds' = Collect(rnds, comp, cur)
       /\ ansSt' = <<"idle", "idle">>
       /\ voteSt' = <<>>
       /\ UNCHANGED <<roundGeneration, cur, voters, calls>>
  ELSE IF isPaused
  THEN /\ pc' = "paused"
       /\ r' = rn
       /\ endRound' = end
       /\ completed' = comp
       /\ active' = act
       /\ rounds' = Collect(rnds, comp, cur)
       /\ pubs' = ps
       /\ ansSt' = <<"idle", "idle">>
       /\ voteSt' = <<>>
       /\ UNCHANGED <<roundGeneration, cur, voters, done, calls>>
  ELSE StartRound(rn, end, comp, rnds, ps)

\* runGame is called: lines 257-263, then the loop.
StartGame ==
  /\ pc = "start"
  /\ LET startRound == ExpectedRound(completed, rounds)
     IN LoopHead(startRound, EndOf(startRound, runs), completed, active,
                 rounds, <<>>)
  /\ UNCHANGED <<generation, isPaused, scores, archive, runs>>
  /\ UNCHANGED <<retryVars, assignVars, mapVars, sideVars>>

\* variant: `if` in place of `while`, the loop goes on after one sleep
GateOpenAfterOneSleep == TRUE

\* Line 266: the test of the pause gate when its timer has fired.
GateOpen == ~isPaused

\* The 1 s timer of the pause gate fires and the flag is clear.  (While the
\* flag is set the timer is armed again and nothing changes.)
PauseWake ==
  /\ pc = "paused"
  /\ GateOpen
  /\ StartRound(r, endRound, completed, rounds, <<>>)
  /\ UNCHANGED <<generation, isPaused, scores, archive, runs>>
  /\ UNCHANGED <<retryVars, assignVars, mapVars, sideVars>>

\* `continue`: r++ and the for header.
Continue(comp, act, rnds, ps) == LoopHead(r + 1, endRound, comp, act, rnds, ps)

\* Lines 335-348: the answer phase starts, both answer calls are issued.
StartAnswers(rnds, ps) ==
  LET r1 == [rnds EXCEPT ![cur].phase = AnsweringPhase,
                         ![cur].answerTasks[1].startedAt = 1,
                         ![cur].answerTasks[2].startedAt = 1]
      ps1 == Append(ps, Pub("runGame", roundGeneration, generation, done,
                            Shows(active, completed, r1)))
  IN IF calls + 2 > MaxCalls
     THEN Capped(r, endRound, completed, active, r1, ps1)
     ELSE /\ rounds' = r1
          /\ pubs' = ps1
          /\ ansSt' = <<"calling", "calling">>
          /\ calls' = calls + 2
          /\ pc' = "answers"
          /\ UNCHANGED <<r, endRound, roundGeneration, cur, voters, active,
                         completed, done, voteSt>>

\* variant: the failure is recorded the way an answer's is, with a
\* placeholder, and the phase is left as it was
PromptFailedPlaceholder(rd) ==
  [rd EXCEPT !.promptTask.finishedAt = 1,
             !.promptTask.error = "Failed after 3 attempts",
             !.promptTask.result = "[no prompt]"]

\* Lines 325-327: the record of a prompt call that failed.
PromptFailed(rd) ==
  [rd EXCEPT !.promptTask.finishedAt = 1,
             !.promptTask.error = "Failed after 3 attempts",
             !.phase = DonePhase]

\* The prompt call settles (lines 307-332): ok = withRetry returned a
\* prompt, ~ok = it threw after its attempts.
PromptSettle(ok) ==
  /\ pc = "prompt"
  /\ IF Stale
     THEN Continue(completed, active, rounds, <<>>)
     ELSE IF ok
     THEN LET r1 == [rounds EXCEPT ![cur].promptTask.finishedAt = 1,
                                   ![cur].promptTask.result = "text",
                                   ![cur].prompt = "text"]
          IN StartAnswers(
               r1,
               <<Pub("runGame", roundGeneration, generation, done,
                     Shows(active, completed, r1))>>)
     ELSE LET r1 == [rounds EXCEPT ![cur] = PromptFailed(rounds[cur])]
              c1 == Append(completed, cur)
          IN Continue(
               c1, NoId, r1,
               <<Pub("runGame", roundGeneration, generation, done,
                     Shows(NoId, c1, r1))>>)
  /\ UNCHANGED <<generation, isPaused, scores, archive, runs>>
  /\ UNCHANGED <<retryVars, assignVars, mapVars, sideVars>>

\* Lines 376-398: the vote phase starts, one vote call per voter is issued.
StartVotes(rnds, ps) ==
  LET r1 == [rnds EXCEPT ![cur].phase = VotingPhase,
                         ![cur].votes = [k \in DOMAIN voters |-> NewVote(voters[k])]]
      ps1 == Append(ps, Pub("runGame", roundGeneration, generation, done,
                            Shows(active, completed, r1)))
  IN IF calls + Len(voters) > MaxCalls
     THEN Capped(r, endRound, completed, active, r1, ps1)
     ELSE /\ rounds' = r1
          /\ pubs' = ps1
          /\ ansSt' = <<"idle", "idle">>
          /\ voteSt' = [k \in DOMAIN voters |-> "calling"]
          /\ calls' = calls + Len(voters)
          /\ pc' = "votes"
          /\ UNCHANGED <<r, endRound, roundGeneration, cur, voters, active,
                         completed, done>>

\* variant: the task handler ends without a call of rerender
PublishedNothing(p) == <<>>

\* Lines 368 and 422: the call of rerender that ends a task handler.
Published(p) == <<p>>

\* variant: the failure is marked but no placeholder answer is stored
AnswerFailedNoPlaceholder(task) ==
  [task EXCEPT !.error = "Failed to answer", !.finishedAt = 1]

\* Lines 361-367: the record of an answer call that failed.
AnswerFailed(task) ==
  [task EXCEPT !.error = "Failed to answer", !.result = "[no answer]",
               !.finishedAt = 1]

\* variant: the handler has no catch, as in the bulk runner's answer
\* phase: the failure rejects Promise.all and leaves runGame
AnswerCaughtByNobody == FALSE

\* Lines 354 and 361: the try of the answer handler encloses the call, its
\* catch takes whatever the call throws.
AnswerCaught == TRUE

\* An exception leaves runGame: the promise it returned is rejected and the
\* loop runs no further.
Thrown ==
  /\ pc' = "thrown"
  /\ UNCHANGED <<r, endRound, roundGeneration, cur, voters, active,
                 completed, done, calls, ansSt, voteSt, rounds, pubs>>

\* One answer call settles (the handler of lines 342-369); when it is the
\* last one Promise.all resolves and runGame goes on (lines 371-373).
AnswerSettle(i, ok) ==
  /\ pc = "answers"
  /\ ansSt[i] = "calling"
  /\ IF ~ok /\ ~AnswerCaught THEN Thrown ELSE
     LET st1 == [ansSt EXCEPT ![i] = "returned"]
         r1 == IF Stale THEN rounds
               ELSE IF ok
               THEN [rounds EXCEPT ![cur].answerTasks[i].result = "text",
                                   ![cur].answerTasks[i].finishedAt = 1]
               ELSE [rounds EXCEPT ![cur].answerTasks[i] = AnswerFailed(@)]
         ps1 == IF Stale THEN <<>>
                ELSE Published(Pub("runGame", roundGeneration, generation, done,
                                   Shows(active, completed, r1)))
     IN IF AllReturned(st1)
        THEN IF Stale
             THEN Continue(completed, active, r1, ps1)
             ELSE StartVotes(r1, ps1)
        ELSE /\ ansSt' = st1
             /\ rounds' = r1
             /\ pubs' = ps1
             /\ UNCHANGED <<pc, r, endRound, roundGeneration, cur, voters,
                            active, completed, done, calls, voteSt>>
  /\ UNCHANGED <<generation, isPaused, scores, archive, runs>>
  /\ UNCHANGED <<retryVars, assignVars, mapVars, sideVars>>

\* variant: the reply is read as if answer A were always shown first
VotedForUnswapped(showAFirst, result, contA, contB) ==
  IF result = "A" THEN contA ELSE contB

\* Lines 402-408: the contestant behind the label the voter chose.
VotedFor(showAFirst, result, contA, contB) ==
  IF showAFirst
  THEN (IF result = "A" THEN contA ELSE contB)
  ELSE (IF result = "A" THEN contB ELSE contA)

\* variant: a vote that names nobody is counted as well
CountVotesWithAbstentions(votes, cont) ==
  Cardinality({ k \in DOMAIN votes :
                  votes[k].votedFor = cont \/ votes[k].error })

\* Lines 430-435: the votes of one side.
CountVotes(votes, cont) ==
  Cardinality({ k \in DOMAIN votes : votes[k].votedFor = cont })

\* variant: the scoring of the CLI loop (quipslop.tsx lines 388-389), every
\* contestant gets its round score
AwardVotes(sc, contA, contB, votesA, votesB) ==
  [m \in DOMAIN sc |->
     sc[m] + (IF m = contA THEN votesA * 100 ELSE 0)
           + (IF m = contB THEN votesB * 100 ELSE 0)]

\* variant: a tie goes to the first contestant
AwardTieToFirst(sc, contA, contB, votesA, votesB) ==
  IF votesA >= votesB THEN [sc EXCEPT ![contA] = @ + 1]
  ELSE [sc EXCEPT ![contB] = @ + 1]

\* Lines 439-443: one win for the side with strictly more votes.
Award(sc, contA, contB, votesA, votesB) ==
  IF votesA > votesB THEN [sc EXCEPT ![contA] = @ + 1]
  ELSE IF votesB > votesA THEN [sc EXCEPT ![contB] = @ + 1]
  ELSE sc

\* Math.random() > 0.5
CoinFlip(draw) == 2 * draw > RandDen

\* variant: the handler stores a fresh list of votes that holds its own
\* vote only
VoteCastFresh(votes, i, who) ==
  [k \in DOMAIN votes |->
     IF k = i THEN [votes[k] EXCEPT !.finishedAt = 1, !.votedFor = who]
     ELSE NewVote(votes[k].voter)]

\* Lines 410-411: the handler of vote i records the vote in its own entry.
VoteCast(votes, i, who) ==
  [votes EXCEPT ![i].finishedAt = 1, ![i].votedFor = who]

\* variant: a failure marks every vote that is still open
VoteAbstainedAll(votes, i) ==
  [k \in DOMAIN votes |->
     IF votes[k].finishedAt = Undef
     THEN [votes[k] EXCEPT !.finishedAt = 1, !.error = TRUE]
     ELSE votes[k]]

\* Lines 416-417: the handler of vote i records the abstention in its own
\* entry.
VoteAbstained(votes, i) ==
  [votes EXCEPT ![i].finishedAt = 1, ![i].error = TRUE]

\* variant: the score of a side is its number of votes
RoundScoreInVotes(n) == n

\* Lines 436-437: the score of a side is 100 for each vote.
RoundScore(n) == n * 100

\* One vote call settles (the handler of lines 384-423): result is the
\* reply withRetry returned ("A" or "B") or "throw" when it gave up; draw is
\* the value of Math.random() behind showAFirst.  When it is the last one
\* Promise.all resolves and runGame scores the round (lines 425-446).
VoteSettle(i, draw, result) ==
  /\ pc = "votes"
  /\ voteSt[i] = "calling"
  /\ LET st1 == [voteSt EXCEPT ![i] = "returned"]
         contA == rounds[cur].contestants[1]
         contB == rounds[cur].contestants[2]
         r1 == IF Stale THEN rounds
               ELSE IF result = "throw"
               THEN [rounds EXCEPT ![cur].votes = VoteAbstained(@, i)]
               ELSE [rounds EXCEPT ![cur].votes =
                       VoteCast(@, i, VotedFor(CoinFlip(draw), result, contA, contB))]
         ps1 == IF Stale THEN <<>>
                ELSE Published(Pub("runGame", roundGeneration, generation, done,
                                   Shows(active, completed, r1)))
         votesA == CountVotes(r1[cur].votes, contA)
         votesB == CountVotes(r1[cur].votes, contB)
     IN IF AllReturned(st1)
        THEN IF Stale
             THEN /\ Continue(completed, active, r1, ps1)
                  /\ UNCHANGED scores
             ELSE /\ rounds' = [r1 EXCEPT ![cur].scoreA = RoundScore(votesA),
                                          ![cur].scoreB = RoundScore(votesB),
                                          ![cur].phase = ScoredPhase]
                  /\ scores' = Award(scores, contA, contB, votesA, votesB)
                  /\ pubs' = Append(ps1, Pub("runGame", roundGeneration, generation, done,
                                             Shows(active, completed, rounds')))
                  /\ pc' = "display"
                  /\ ansSt' = <<"idle", "idle">>
                  /\ voteSt' = <<>>
                  /\ UNCHANGED <<r, endRound, roundGeneration, cur, voters,
                                 active, completed, done, calls>>
        ELSE /\ voteSt' = st1
             /\ rounds' = r1
             /\ pubs' = ps1
             /\ UNCHANGED <<pc, r, endRound, roundGeneration, cur, voters,
                            active, completed, done, calls, ansSt, scores>>
  /\ UNCHANGED <<generation, isPaused, archive, runs>>
  /\ UNCHANGED <<retryVars, assignVars, mapVars, sideVars>>

\* variant: the display sleep waits for the pause flag to clear
TimerFiredWhenUnpaused == ~isPaused

\* Line 446: the 5 s timer fires whatever the state is.
TimerFired == TRUE

\* variant: the round goes into the history and is not saved
SavedNowhere(arch, rd) == arch

\* Line 452: saveRound(round) adds the round, as it is now, to the rounds
\* table.
Saved(arch, rd) == Append(arch, rd)

\* variant: the history takes a copy of the round without its votes
EntryWithoutVotes(rd) == [rd EXCEPT !.votes = <<>>]

\* Line 453: the history takes the round object itself, as it is.
Entry(rd) == rd

\* The 5 s display timer fires (lines 446-456): the round is archived.
DisplayWake ==
  /\ pc = "display"
  /\ TimerFired
  /\ IF Stale
     THEN /\ Continue(completed, active, rounds, <<>>)
          /\ UNCHANGED archive
     ELSE /\ archive' = Saved(archive, rounds[cur])
          /\ LET r1 == [rounds EXCEPT ![cur] = Entry(@)]
             IN Continue(Append(completed, cur), NoId, r1,
                         <<Pub("runGame", roundGeneration, generation, done,
                               Shows(NoId, Append(completed, cur), r1))>>)
  /\ UNCHANGED <<generation, isPaused, scores, runs>>
  /\ UNCHANGED <<retryVars, assignVars, mapVars, sideVars>>

(***************************************************************************)
(* The admin handlers of server.ts (authorised requests).  The server      *)
(* takes requests once the module has run, and runGame is called at its    *)
(* end (line 669): no handler runs before runGame's first await.           *)
(***************************************************************************)
\* variant: the reset leaves the standings as they are
ScoresKeptOnReset(sc) == sc

\* Line 446: the standings a reset installs, every model at zero.
ScoresAfterReset(sc) == ZeroScores

\* variant: the reset leaves the active slot as it is
ActiveKeptOnReset(a) == a

\* Line 445: the active slot a reset installs.
ActiveAfterReset(a) == NoId

\* variant: the reset leaves the pause flag as it is
PauseKeptOnReset(p) == p

\* Line 448: the pause flag a reset installs.
PausedAfterReset(p) == TRUE

\* POST /api/admin/reset, lines 442-450
Reset ==
  /\ pc # "start"
  /\ generation < MaxGen
  /\ archive' = <<>>
  /\ completed' = <<>>
  /\ active' = ActiveAfterReset(active)
  /\ scores' = ScoresAfterReset(scores)
  /\ done' = FALSE
  /\ isPaused' = PausedAfterReset(isPaused)
  /\ generation' = generation + 1
  /\ cur' = IF InFlight THEN cur ELSE NoId
  /\ rounds' = Collect(rounds, <<>>, cur')
  /\ UNCHANGED <<pc, runs, r, endRound, roundGeneration, voters, ansSt,
                 voteSt, pubs, calls>>
  /\ UNCHANGED <<retryVars, assignVars, mapVars, sideVars>>

\* POST /api/pause, /api/resume, /api/admin/pause, /api/admin/resume,
\* lines 481-486
SetPaused(flag) ==
  /\ pc # "start"
  /\ isPaused' = flag
  /\ UNCHANGED <<generation, done, scores, completed, active, rounds,
                 archive, pc, runs, r, endRound, roundGeneration, cur,
                 voters, ansSt, voteSt, pubs, calls>>
  /\ UNCHANGED <<retryVars, assignVars, mapVars, sideVars>>

Pause == SetPaused(TRUE)

Resume == SetPaused(FALSE)

VoteResults == {"A", "B", "throw"}

GameNext ==
  \/ StartGame
  \/ PauseWake
  \/ \E ok \in BOOLEAN : PromptSettle(ok)
  \/ \E i \in 1 .. 2, ok \in BOOLEAN : AnswerSettle(i, ok)
  \/ \E i \in DOMAIN voteSt, draw \in GameDraws, result \in VoteResults :
       VoteSettle(i, draw, result)
  \/ DisplayWake
  \/ Reset
  \/ Pause
  \/ Resume

(***************************************************************************)
(* withRetry, game.ts lines 120-157.                                       *)
(* fnScript[k] says what the k-th invocation of fn does: "valid" (returns  *)
(* a result that validate accepts), "invalid" (returns one it rejects) or  *)
(* "throw".  The result of the k-th invocation is [result |-> k], the      *)
(* error it throws [thrown |-> k]; the error made at line 140 for attempt  *)
(* a is [validation |-> a].                                                *)
(***************************************************************************)
\* largest value of the retries argument
MaxRetries == 3

FnOutcomes == {"valid", "invalid", "throw"}

NoValue == [none |-> 0]

\* setTimeout(r, 1000 * attempt)
Delay(a) == 1000 * a

\* variant: a delay after every failed attempt, the last included
SleepsAfterEvery(a, n) == a <= n

\* attempt < retries
SleepsAfter(a, n) == a < n

RetryInit ==
  /\ retries \in 1 .. MaxRetries
  /\ fnScript \in [1 .. retries -> FnOutcomes]
  /\ attempt = 1
  /\ lastErr = NoValue
  /\ wrPc = "fn"
  /\ settled = NoValue
  /\ fnCalls = 1
  /\ sleeps = <<>>

\* variant: the loop stops one attempt short
MoreAttemptsShort(a, n) == a < n

\* line 127: attempt <= retries
MoreAttempts(a, n) == a <= n

\* variant: only the first error is kept
KeepFirstErr(prev, err) == IF prev = NoValue THEN err ELSE prev

\* lines 140 and 147: lastErr = the error of this attempt
RecordErr(prev, err) == err

\* attempt++ and the loop test: the next call of fn, or lines 153-156
NextAttempt(err) ==
  IF MoreAttempts(attempt + 1, retries)
  THEN /\ attempt' = attempt + 1
       /\ fnCalls' = fnCalls + 1
       /\ wrPc' = "fn"
       /\ UNCHANGED settled
  ELSE /\ attempt' = attempt + 1
       /\ wrPc' = "threw"
       /\ settled' = err
       /\ UNCHANGED fnCalls

\* The call of fn made at attempt `attempt` settles: lines 128-152.
FnSettle ==
  /\ wrPc = "fn"
  /\ LET what == fnScript[fnCalls]
         err == RecordErr(lastErr,
                          IF what = "throw" THEN [thrown |-> fnCalls]
                          ELSE [validation |-> attempt])
     IN IF what = "valid"
        THEN /\ wrPc' = "returned"
             /\ settled' = [result |-> fnCalls]
             /\ UNCHANGED <<attempt, lastErr, fnCalls, sleeps>>
        ELSE IF SleepsAfter(attempt, retries)
        THEN /\ lastErr' = err
             /\ sleeps' = Append(sleeps, Delay(attempt))
             /\ wrPc' = "sleep"
             /\ UNCHANGED <<attempt, settled, fnCalls>>
        ELSE /\ lastErr' = err
             /\ NextAttempt(err)
             /\ UNCHANGED sleeps
  /\ UNCHANGED <<retries, fnScript>>
  /\ UNCHANGED <<gameVars, assignVars, mapVars, sideVars>>

\* The backoff timer fires.
SleepWake ==
  /\ wrPc = "sleep"
  /\ NextAttempt(lastErr)
  /\ UNCHANGED <<retries, fnScript, lastErr, sleeps>>
  /\ UNCHANGED <<gameVars, assignVars, mapVars, sideVars>>

RetryNext == FnSettle \/ SleepWake

(***************************************************************************)
(* Role assignment: game.ts lines 279-283, quipslop.tsx lines 263-267.     *)
(***************************************************************************)
\* largest pool given to the role assignment
MaxPool == 5

NoRoles == [prompter |-> NoModel, contA |-> NoModel, contB |-> NoModel,
            voters |-> <<>>]

Voters(v, shuffled) ==
  IF v = "game" THEN GameVoters(shuffled) ELSE CliVoters(shuffled)

AssignInit ==
  /\ pool \in { SubSeq(ALL_MODELS, 1, n) : n \in 3 .. MaxPool }
  /\ variant \in {"game", "cli"}
  /\ roles = NoRoles

\* One pass through the head of a round: shuffle, then the four roles.
AssignRoles ==
  /\ roles = NoRoles
  /\ \E draws \in [1 .. Len(pool) - 1 -> 0 .. RandDen - 1] :
       LET shuffled == shuffle(pool, draws)
       IN roles' = [prompter |-> shuffled[1], contA |-> shuffled[2],
                    contB |-> shuffled[3], voters |-> Voters(variant, shuffled)]
  /\ UNCHANGED <<pool, variant>>
  /\ UNCHANGED <<gameVars, retryVars, mapVars, sideVars>>

(***************************************************************************)
(* The mapping of a vote back to a contestant: game.ts lines 389-411 and   *)
(* the bulk runner, lines 93-105.                                          *)
(***************************************************************************)
NoBallot == [draw |-> 0, reply |-> "A", contA |-> NoModel, contB |-> NoModel]

NoRecord == [first |-> NoModel, second |-> NoModel, game |-> NoModel,
             bulk |-> NoModel]

\* Lines 390-391 (bulk runner 94-95): the authors of the answers passed to
\* callVote, which shows its first argument as "Answer A" and its second
\* as "Answer B" (game.ts line 238).
Presented(showAFirst, contA, contB) ==
  IF showAFirst THEN <<contA, contB>> ELSE <<contB, contA>>

\* Bulk runner, lines 103-105: votedForA, and the contestant it stands for.
BulkVotedFor(showAFirst, vote, contA, contB) ==
  LET votedForA == IF showAFirst THEN vote = "A" ELSE vote = "B"
  IN IF votedForA THEN contA ELSE contB

MapInit ==
  /\ ballot \in [draw : 0 .. RandDen - 1, reply : {"A", "B"},
                  contA : ModelNames, contB : ModelNames]
  /\ ballot.contA # ballot.contB
  /\ recorded = NoRecord

\* One vote is presented, answered and mapped back by both loops.
MapVote ==
  /\ recorded = NoRecord
  /\ LET showAFirst == CoinFlip(ballot.draw)
         shown == Presented(showAFirst, ballot.contA, ballot.contB)
     IN recorded' =
          [first |-> shown[1], second |-> shown[2],
           game |-> VotedFor(showAFirst, ballot.reply, ballot.contA, ballot.contB),
           bulk |-> BulkVotedFor(showAFirst, ballot.reply, ballot.contA,
                                 ballot.contB)]
  /\ UNCHANGED ballot
  /\ UNCHANGED <<gameVars, retryVars, assignVars, sideVars>>

(***************************************************************************)
(* Specifications.  Each runs one part of the program and leaves the       *)
(* variables of the others at rest.                                        *)
(***************************************************************************)
(***************************************************************************)
(* The CLI variant (quipslop.tsx): the vote phase and the scoring of a     *)
(* round.  It has no generation counter and no pause flag.                 *)
(***************************************************************************)
CliContA == MODELS[2]

CliContB == MODELS[3]

\* what state.scores may hold for the two contestants from earlier rounds
CliEarlier == {0, 300}

\* Lines 340-345: the round when its votes have been started; voter k is
\* the k-th of shuffled.slice(3).
CliVoting ==
  [phase |-> VotingPhase,
   votes |-> [k \in 1 .. NumCliVoters |-> NewVote(k)],
   scoreA |-> Undef, scoreB |-> Undef]

CliIdle ==
  /\ cliRound = [phase |-> "undefined", votes |-> <<>>,
                 scoreA |-> Undef, scoreB |-> Undef]
  /\ cliScores = ZeroScores

CliInit ==
  /\ cliRound = CliVoting
  /\ \E a, b \in CliEarlier :
       cliScores = [ZeroScores EXCEPT ![CliContA] = a, ![CliContB] = b]

\* variant: the winner of the round gets one point, as in game.ts
CliAwardWin(sc, rd) ==
  Award(sc, CliContA, CliContB, rd.scoreA, rd.scoreB)

\* Lines 388-389: each contestant's standings entry grows by its score of
\* the round.
CliAward(sc, rd) ==
  [sc EXCEPT ![CliContA] = @ + rd.scoreA, ![CliContB] = @ + rd.scoreB]

\* Lines 378-390: the count of the votes, the scores of the round, the
\* phase and the standings.
CliScored(rd) ==
  [rd EXCEPT !.scoreA = CountVotes(rd.votes, CliContA) * 100,
             !.scoreB = CountVotes(rd.votes, CliContB) * 100,
             !.phase = DonePhase]

\* One vote call of the CLI round settles (lines 348-374); when it is the
\* last one the round is scored (lines 378-390).
CliVoteSettle(i, draw, result) ==
  /\ cliRound.phase = VotingPhase
  /\ cliRound.votes[i].finishedAt = Undef
  /\ LET vs == IF result = "throw"
               THEN VoteAbstained(cliRound.votes, i)
               ELSE [cliRound.votes EXCEPT
                       ![i].finishedAt = 1,
                       ![i].votedFor =
                         VotedFor(CoinFlip(draw), result, CliContA, CliContB)]
         r1 == [cliRound EXCEPT !.votes = vs]
     IN IF \A k \in DOMAIN vs : vs[k].finishedAt # Undef
        THEN /\ cliRound' = CliScored(r1)
             /\ cliScores' = CliAward(cliScores, cliRound')
        ELSE /\ cliRound' = r1
             /\ UNCHANGED cliScores
  /\ UNCHANGED <<gameVars, retryVars, assignVars, mapVars, bulkVars, rateVars,
                 viewerVars, adminVars>>

(***************************************************************************)
(* The bulk runner (bulk-test.ts): worker and main.                        *)
(***************************************************************************)
NewWorker == [at |-> "new", roundNum |-> 0]

BulkInit ==
  /\ currentTaskIndex = 0
  /\ completedRounds = 0
  /\ failedRounds = 0
  /\ workers = [w \in 1 .. CONCURRENCY |-> NewWorker]
  /\ bulkStarted = FALSE
  /\ ranRound = [n \in 1 .. TOTAL_ROUNDS |-> 0]

BulkIdle == BulkInit

\* Lines 132-137: the head of a worker's loop, run without an await: the
\* state [idx, wks, ran] after worker w has taken the next round number and
\* called runRound, or has left the loop.
Claim(w, st) ==
  LET roundNum == st.idx + 1
  IN IF roundNum > TOTAL_ROUNDS
     THEN [st EXCEPT !.wks[w] = [at |-> "ended", roundNum |-> 0]]
     ELSE [idx |-> st.idx + 1,
           wks |-> [st.wks EXCEPT ![w] = [at |-> "runRound",
                                          roundNum |-> roundNum]],
           ran |-> [st.ran EXCEPT ![roundNum] = @ + 1]]

\* Line 178: Array.from calls worker() for each index in turn; each call
\* runs to its first await.
RECURSIVE StartWorkers(_, _)
StartWorkers(w, st) ==
  IF w > CONCURRENCY THEN st ELSE StartWorkers(w + 1, Claim(w, st))

\* main, lines 170-178
BulkMain ==
  /\ ~bulkStarted
  /\ bulkStarted' = TRUE
  /\ LET st == StartWorkers(1, [idx |-> currentTaskIndex, wks |-> workers,
                                ran |-> ranRound])
     IN /\ currentTaskIndex' = st.idx
        /\ workers' = st.wks
        /\ ranRound' = st.ran
  /\ UNCHANGED <<completedRounds, failedRounds>>
  /\ UNCHANGED <<gameVars, retryVars, assignVars, mapVars, cliVars, rateVars,
                 viewerVars, adminVars>>

\* what runRound gives a worker: a result, a result with its error field
\* set (prompt or answers failed), or an exception
RoundOutcomes == {"result", "error", "throw"}

\* variant: a round that threw is logged and not counted
FailedOnThrowUncounted(n) == n

\* Line 164: failedRounds++ in the catch of the worker.
FailedOnThrow(n) == n + 1

\* The runRound call of worker w settles (lines 136-167), and the worker
\* goes round its loop (lines 132-135).
BulkSettle(w, outcome) ==
  /\ bulkStarted
  /\ workers[w].at = "runRound"
  /\ completedRounds' =
       IF outcome = "result" THEN completedRounds + 1 ELSE completedRounds
  /\ failedRounds' =
       IF outcome = "error" THEN failedRounds + 1
       ELSE IF outcome = "throw" THEN FailedOnThrow(failedRounds)
       ELSE failedRounds
  /\ LET st == Claim(w, [idx |-> currentTaskIndex, wks |-> workers,
                         ran |-> ranRound])
     IN /\ currentTaskIndex' = st.idx
        /\ workers' = st.wks
        /\ ranRound' = st.ran
  /\ UNCHANGED bulkStarted
  /\ UNCHANGED <<gameVars, retryVars, assignVars, mapVars, cliVars, rateVars,
                 viewerVars, adminVars>>

(***************************************************************************)
(* The rate limiter, server.ts isRateLimited.  A Map is a function on the  *)
(* keys it holds.                                                          *)
(***************************************************************************)
RateKeys == {"admin:a", "admin:b"}

NoCall == [key |-> "undefined", limited |-> FALSE, plain |-> FALSE]

RateInit ==
  /\ clock = WindowMs
  /\ requestWindows = << >>
  /\ lastRateWindowSweep = 0
  /\ admitted = [k \in RateKeys |-> << >>]
  /\ unswept = << >>
  /\ lastCall = NoCall

RateIdle == RateInit

\* variant: a timestamp exactly one window old is dropped
InWindowOpen(now, timestamp) == now - timestamp < WindowMs

\* Lines 114 and 126: the test of the filter.
InWindow(now, timestamp) == now - timestamp <= WindowMs

\* timestamps.filter(...): the timestamps that pass the test, in order
RECURSIVE Filter(_, _)
Filter(ts, now) ==
  IF ts = << >> THEN << >>
  ELSE IF InWindow(now, Head(ts))
       THEN <<Head(ts)>> \o Filter(Tail(ts), now)
       ELSE Filter(Tail(ts), now)

\* Lines 112-123: the sweep over all buckets, when one is due.
Swept(windows, now) ==
  LET kept == { k \in DOMAIN windows :
                  Filter(windows[k], now) # << >> }
  IN [k \in kept |-> Filter(windows[k], now)]

\* Lines 125-134: the bucket of the key, the test against the limit and
\* the map after it.
Limited(windows, key, now) ==
  LET existing == IF key \in DOMAIN windows THEN windows[key] ELSE << >>
      recent == Filter(existing, now)
  IN Len(recent) >= RateLimit

Recorded(windows, key, now) ==
  LET existing == IF key \in DOMAIN windows THEN windows[key] ELSE << >>
      recent == Filter(existing, now)
      stored == IF Len(recent) >= RateLimit THEN recent
                ELSE Append(recent, now)
  IN [k \in DOMAIN windows \cup {key} |->
        IF k = key THEN stored ELSE windows[k]]

\* A call isRateLimited(key, RateLimit, WindowMs) made dt ticks after the
\* call before it.
RateCall(key, dt) ==
  /\ clock + dt <= WindowMs + MaxClock
  /\ clock' = clock + dt
  /\ LET now == clock'
         due == now - lastRateWindowSweep >= WindowMs
         w1 == IF due THEN Swept(requestWindows, now) ELSE requestWindows
     IN /\ lastRateWindowSweep' = IF due THEN now ELSE lastRateWindowSweep
        /\ requestWindows' = Recorded(w1, key, now)
        /\ unswept' = Recorded(unswept, key, now)
        /\ lastCall' = [key |-> key, limited |-> Limited(w1, key, now),
                        plain |-> Limited(unswept, key, now)]
        /\ admitted' = IF Limited(w1, key, now) THEN admitted
                       ELSE [admitted EXCEPT ![key] = Append(@, now)]

isRateLimited(key, dt) ==
  /\ RateCall(key, dt)
  /\ UNCHANGED <<gameVars, retryVars, assignVars, mapVars, cliVars, bulkVars,
                 viewerVars, adminVars>>

(***************************************************************************)
(* Viewer votes: server.ts websocket.message.  A Map is a function on the  *)
(* keys it holds.                                                          *)
(***************************************************************************)
Conns == 1 .. NumConns

\* the last tick at which a vote is taken (round.viewerVotingEndsAt)
ViewerEndsAt == 1

ViewerIdle ==
  /\ viewerVoters = << >>
  /\ viewerRound = [phase |-> "undefined", viewerVotesA |-> Undef,
                    viewerVotesB |-> Undef, viewerVotingEndsAt |-> Undef]
  /\ viewerNow = 0
  /\ latestVote = << >>

\* A voting window has opened: the round is in its voting phase with a
\* deadline and no viewer vote, and the callback of lines 669-671 has
\* cleared viewerVoters.
ViewerInit ==
  /\ viewerVoters = << >>
  /\ viewerRound = [phase |-> VotingPhase, viewerVotesA |-> Undef,
                    viewerVotesB |-> Undef, viewerVotingEndsAt |-> ViewerEndsAt]
  /\ viewerNow = 0
  /\ latestVote = << >>

\* x ?? 0
OrZero(x) == IF x = Undef THEN 0 ELSE x

\* variant: a changed vote is added and the earlier one is left counted
UndoneNot(n) == n

\* Lines 620-621: Math.max(0, (n ?? 0) - 1)
Undone(n) == IF OrZero(n) - 1 > 0 THEN OrZero(n) - 1 ELSE 0

\* Lines 611-614: the tests a vote message has to pass.
VoteTaken(votedFor) ==
  /\ viewerRound.phase = VotingPhase
  /\ viewerRound.viewerVotingEndsAt # Undef
  /\ ~(viewerNow > viewerRound.viewerVotingEndsAt)
  /\ votedFor \in {"A", "B"}

\* message(ws, message) with a message of type "vote", lines 606-630
ViewerMessage(ws, votedFor) ==
  /\ viewerRound.phase # "undefined"
  /\ IF ~VoteTaken(votedFor)
     THEN UNCHANGED <<viewerVoters, viewerRound, latestVote>>
     ELSE LET previousVote == IF ws \in DOMAIN viewerVoters
                              THEN viewerVoters[ws] ELSE "undefined"
              r1 == IF previousVote = "A"
                    THEN [viewerRound EXCEPT !.viewerVotesA = Undone(@)]
                    ELSE IF previousVote = "B"
                    THEN [viewerRound EXCEPT !.viewerVotesB = Undone(@)]
                    ELSE viewerRound
          IN /\ latestVote' = [c \in DOMAIN latestVote \cup {ws} |->
                                 IF c = ws THEN votedFor ELSE latestVote[c]]
             /\ IF previousVote = votedFor
                THEN UNCHANGED <<viewerVoters, viewerRound>>
                ELSE /\ viewerVoters' =
                          [c \in DOMAIN viewerVoters \cup {ws} |->
                             IF c = ws THEN votedFor ELSE viewerVoters[c]]
                     /\ viewerRound' =
                          IF votedFor = "A"
                          THEN [r1 EXCEPT !.viewerVotesA = OrZero(@) + 1]
                          ELSE [r1 EXCEPT !.viewerVotesB = OrZero(@) + 1]
  /\ UNCHANGED viewerNow
  /\ UNCHANGED <<gameVars, retryVars, assignVars, mapVars, cliVars, bulkVars,
                 rateVars, adminVars>>

\* Date.now() moves on
ViewerTick ==
  /\ viewerRound.phase # "undefined"
  /\ viewerNow <= ViewerEndsAt
  /\ viewerNow' = viewerNow + 1
  /\ UNCHANGED <<viewerVoters, viewerRound, latestVote>>
  /\ UNCHANGED <<gameVars, retryVars, assignVars, mapVars, cliVars, bulkVars,
                 rateVars, adminVars>>

\* the game loop ends the voting phase of the round
ViewerPhaseEnds ==
  /\ viewerRound.phase = VotingPhase
  /\ viewerRound' = [viewerRound EXCEPT !.phase = DonePhase]
  /\ UNCHANGED <<viewerVoters, viewerNow, latestVote>>
  /\ UNCHANGED <<gameVars, retryVars, assignVars, mapVars, cliVars, bulkVars,
                 rateVars, adminVars>>

(***************************************************************************)
(* The admin requests: server.ts handleRequest, /api/admin/reset and       *)
(* /api/pause, /api/resume, /api/admin/pause, /api/admin/resume.           *)
(***************************************************************************)
\* what a request brings as its secret (header, query or cookie); "" when
\* it brings none
Secrets == {"", "s1", "s2"}

AdminPaths == {"reset", "pause", "resume"}

\* `admin:${ip}` of the one address the requests come from
AdminKey == "admin:a"

NoRequest == [status |-> 0, broadcast |-> FALSE]

AdminIdle ==
  /\ adminSecret = ""
  /\ parsing = 0
  /\ adminLast = NoRequest

AdminInit ==
  /\ adminSecret \in {"", "s1"}
  /\ parsing = 0
  /\ adminLast = NoRequest

\* variant: only the comparison decides
AuthorizedByCompare(expected, provided) == provided = expected

\* isAdminAuthorized, lines 193-199 (secureCompare, 137-142, is equality of
\* the two strings)
isAdminAuthorized(expected, provided) ==
  IF expected = "" THEN FALSE
  ELSE IF provided = "" THEN FALSE
  ELSE provided = expected

\* a response without any write to the game state
Respond(status) ==
  /\ adminLast' = [status |-> status, broadcast |-> FALSE]
  /\ UNCHANGED gameVars

\* What a POST request does once isRateLimited has returned `limited`
\* (lines 422-427 and 474-501), up to its response or, for a reset, up to
\* `await req.json()`.
AdminHandled(path, provided, limited) ==
  IF limited
  THEN Respond(429) /\ UNCHANGED parsing
  ELSE IF ~isAdminAuthorized(adminSecret, provided)
  THEN Respond(401) /\ UNCHANGED parsing
  ELSE IF path = "reset"
  THEN /\ parsing < MaxParsing
       /\ parsing' = parsing + 1
       /\ UNCHANGED <<adminLast, gameVars>>
  ELSE /\ isPaused' = (path = "pause")
       /\ adminLast' = [status |-> 200, broadcast |-> TRUE]
       /\ UNCHANGED parsing
       /\ UNCHANGED <<generation, done, scores, completed, active, rounds,
                      archive, pc, runs, r, endRound, roundGeneration, cur,
                      voters, ansSt, voteSt, pubs, calls>>

\* One request to one of the admin paths, made dt ticks after the request
\* before it (lines 415-427 and 466-501).
AdminRequest(path, method, provided, dt) ==
  /\ UNCHANGED adminSecret
  /\ UNCHANGED <<retryVars, assignVars, mapVars, cliVars, bulkVars,
                 viewerVars>>
  /\ IF method # "POST"
     THEN /\ Respond(405)
          /\ UNCHANGED <<rateVars, parsing>>
     ELSE /\ RateCall(AdminKey, dt)
          /\ AdminHandled(path, provided, lastCall'.limited)

\* what the body of a reset request gives as `confirm`; "throw" when
\* req.json() rejects
Confirms == {"RESET", "reset", "", "throw"}

\* The rest of a reset request, lines 432-461.
ResetBody(confirm) ==
  /\ parsing > 0
  /\ parsing' = parsing - 1
  /\ UNCHANGED adminSecret
  /\ UNCHANGED <<retryVars, assignVars, mapVars, cliVars, bulkVars, rateVars,
                 viewerVars>>
  /\ IF confirm # "RESET"
     THEN Respond(400)
     ELSE /\ generation < MaxGen
          /\ archive' = <<>>
          /\ completed' = <<>>
          /\ active' = ActiveAfterReset(active)
          /\ scores' = ScoresAfterReset(scores)
          /\ done' = FALSE
          /\ isPaused' = PausedAfterReset(isPaused)
          /\ generation' = generation + 1
          /\ cur' = IF InFlight THEN cur ELSE NoId
          /\ rounds' = Collect(rounds, <<>>, cur')
          /\ adminLast' = [status |-> 200, broadcast |-> TRUE]
          /\ UNCHANGED <<pc, runs, r, endRound, roundGeneration, voters,
                         ansSt, voteSt, pubs, calls>>

SideIdle == CliIdle /\ BulkIdle /\ RateIdle /\ ViewerIdle /\ AdminIdle

vars == <<gameVars, retryVars, assignVars, mapVars, sideVars>>

RetryIdle ==
  /\ retries = 1
  /\ fnScript = <<"valid">>
  /\ attempt = 1
  /\ lastErr = NoValue
  /\ wrPc = "idle"
  /\ settled = NoValue
  /\ fnCalls = 0
  /\ sleeps = <<>>

AssignIdle ==
  /\ pool = <<>>
  /\ variant = "game"
  /\ roles = NoRoles

GameIdle ==
  /\ generation = 0
  /\ isPaused = FALSE
  /\ done = FALSE
  /\ scores = ZeroScores
  /\ completed = <<>>
  /\ active = NoId
  /\ rounds = [i \in RoundIds |-> NoRound]
  /\ archive = <<>>
  /\ pc = "idle"
  /\ runs = Infinity
  /\ r = 0
  /\ endRound = 0
  /\ roundGeneration = 0
  /\ cur = NoId
  /\ voters = <<>>
  /\ ansSt = <<"idle", "idle">>
  /\ voteSt = <<>>
  /\ pubs = <<>>
  /\ calls = 0

MapIdle ==
  /\ ballot = NoBallot
  /\ recorded = NoRecord

\* the game loop and the admin handlers
Init == GameInit /\ RetryIdle /\ AssignIdle /\ MapIdle /\ SideIdle

Next == GameNext

Spec == Init /\ [][Next]_vars

\* The game loop with no reset request (the premise of the liveness
\* properties), with what the event loop guarantees, a timer that is armed
\* fires, and with their other premise, every backend call settles.  Pause
\* and resume are requests that may never come.
NextNoReset ==
  \/ StartGame
  \/ PauseWake
  \/ \E ok \in BOOLEAN : PromptSettle(ok)
  \/ \E i \in 1 .. 2, ok \in BOOLEAN : AnswerSettle(i, ok)
  \/ \E i \in DOMAIN voteSt, draw \in GameDraws, result \in VoteResults :
       VoteSettle(i, draw, result)
  \/ DisplayWake
  \/ Pause
  \/ Resume

Fairness ==
  /\ WF_vars(StartGame)
  /\ WF_vars(PauseWake)
  /\ WF_vars(\E ok \in BOOLEAN : PromptSettle(ok))
  /\ \A i \in 1 .. 2 : WF_vars(\E ok \in BOOLEAN : AnswerSettle(i, ok))
  /\ \A i \in 1 .. NumModels :
       WF_vars(\E draw \in GameDraws, result \in VoteResults :
                 i \in DOMAIN voteSt /\ VoteSettle(i, draw, result))
  /\ WF_vars(DisplayWake)

SpecFair == Init /\ [][NextNoReset]_vars /\ Fairness

\* The same under the premise that the pause flag is cleared whenever it
\* is set (a resume request follows) and stays clear long enough for the
\* 1 s poll of the pause gate to find it clear.
SpecTerm ==
  /\ Init /\ [][NextNoReset]_vars /\ Fairness
  /\ WF_vars(Resume)
  /\ SF_vars(PauseWake)

\* one call of withRetry
InitRetry == RetryInit /\ GameIdle /\ AssignIdle /\ MapIdle /\ SideIdle

NextRetry == RetryNext

SpecRetry == InitRetry /\ [][NextRetry]_vars

\* role assignments
InitAssign == AssignInit /\ GameIdle /\ RetryIdle /\ MapIdle /\ SideIdle

NextAssign == AssignRoles

SpecAssign == InitAssign /\ [][NextAssign]_vars

\* single votes
InitMap == MapInit /\ GameIdle /\ RetryIdle /\ AssignIdle /\ SideIdle

NextMap == MapVote

SpecMap == InitMap /\ [][NextMap]_vars

\* the loop, the retry wrapper, the assignment and the vote not running
CoreIdle == GameIdle /\ RetryIdle /\ AssignIdle /\ MapIdle

\* a round of the CLI variant from the start of its votes
InitCli == CliInit /\ CoreIdle /\ BulkIdle /\ RateIdle /\ ViewerIdle /\ AdminIdle

NextCli ==
  \E i \in 1 .. NumCliVoters, draw \in GameDraws, result \in VoteResults :
    CliVoteSettle(i, draw, result)

SpecCli == InitCli /\ [][NextCli]_vars

\* the bulk runner
InitBulk == BulkInit /\ CoreIdle /\ CliIdle /\ RateIdle /\ ViewerIdle /\ AdminIdle

NextBulk ==
  \/ BulkMain
  \/ \E w \in 1 .. CONCURRENCY, outcome \in RoundOutcomes :
       BulkSettle(w, outcome)

SpecBulk == InitBulk /\ [][NextBulk]_vars

\* the rate limiter under calls at non-decreasing times
InitRate == RateInit /\ CoreIdle /\ CliIdle /\ BulkIdle /\ ViewerIdle /\ AdminIdle

NextRate == \E key \in RateKeys, dt \in 0 .. WindowMs + 1 : isRateLimited(key, dt)

SpecRate == InitRate /\ [][NextRate]_vars

\* vote messages during and after a voting window
InitViewer == ViewerInit /\ CoreIdle /\ CliIdle /\ BulkIdle /\ RateIdle /\ AdminIdle

NextViewer ==
  \/ \E ws \in Conns, votedFor \in {"A", "B", "C"} : ViewerMessage(ws, votedFor)
  \/ ViewerTick
  \/ ViewerPhaseEnds

SpecViewer == InitViewer /\ [][NextViewer]_vars

\* admin requests against the state the server starts with, the game loop
\* standing still
InitAdmin ==
  /\ AdminInit
  /\ GameInit
  /\ runs = Infinity
  /\ RateInit
  /\ RetryIdle /\ AssignIdle /\ MapIdle /\ CliIdle /\ BulkIdle /\ ViewerIdle

NextAdmin ==
  \/ \E path \in AdminPaths, method \in {"POST", "GET"}, provided \in Secrets,
        dt \in 0 .. WindowMs + 1 : AdminRequest(path, method, provided, dt)
  \/ \E confirm \in Confirms : ResetBody(confirm)

SpecAdmin == InitAdmin /\ [][NextAdmin]_vars

(***************************************************************************)
(* Properties.                                                             *)
(***************************************************************************)
Settling == pc \in {"prompt", "answers", "votes", "display"}

\* C1: once reset() has raised the generation counter under a round that is
\* still awaiting a backend call (or its display timer), no later step of
\* runGame for that round (a task handler, the end of the phase) changes
\* the round's record, the standings, the completed history or the archive.
C1_StaleSettlementChangesNothing ==
  [][ (Settling /\ generation # roundGeneration /\ generation' = generation)
        => /\ \/ rounds'[cur] = rounds[cur]
              \/ cur' # cur /\ rounds'[cur] = NoRound
           /\ scores' = scores
           /\ completed' = completed
           /\ archive' = archive ]_vars

\* a vote task of a round that was reset has returned without writing
C1_Witness ==
  /\ pc = "votes"
  /\ generation # roundGeneration
  /\ \E i \in DOMAIN voteSt :
       /\ voteSt[i] = "returned"
       /\ rounds[cur].votes[i].finishedAt = Undef
       /\ rounds[cur].votes[i].votedFor = NoModel

\* C2: every call of rerender made by runGame is made with runGame's
\* generation snapshot equal to the generation counter: a step that belongs
\* to a round of an earlier generation publishes nothing.
C2_NoPublishFromStaleRound ==
  \A k \in DOMAIN pubs : pubs[k].rgen = pubs[k].gen

\* C3: the step that abandons a round after a reset does not end the game
\* loop, whatever the round's place in the budget: it waits at the pause
\* gate or creates the next round, and a round it creates carries the new
\* generation and the number after the last round of the history (1 when
\* the history is empty).
C3_AbandonedRoundIsFollowedByNewRound ==
  [][ (Settling /\ generation # roundGeneration /\ generation' = generation)
        => /\ pc' # "exit"
           /\ done' = done
           /\ pc' = "prompt" =>
                /\ roundGeneration' = generation
                /\ rounds'[cur'].num =
                     IF completed = <<>> THEN 1
                     ELSE rounds[Last(completed)].num + 1 ]_vars

PhaseMoves ==
  { <<"prompting", "answering">>, <<"answering", "voting">>,
    <<"voting", "done">>, <<"prompting", "done">> }
  \cup { <<p, p>> : p \in {"prompting", "answering", "voting", "done"} }

\* C4: the phase of a round object only moves forward: prompting ->
\* answering -> voting -> done, or prompting -> done; no step of the game
\* loop or of reset, pause and resume moves it back.
C4_PhaseOnlyMovesForward ==
  [][ \A id \in RoundIds :
        (rounds[id] # NoRound /\ rounds'[id] # NoRound)
          => <<rounds[id].phase, rounds'[id].phase>> \in PhaseMoves ]_vars

\* a round created after a reset has reached the vote phase, the game
\* paused meanwhile
C4_Witness ==
  /\ pc = "votes"
  /\ generation > 0
  /\ roundGeneration = generation
  /\ isPaused
  /\ rounds[cur].phase = "voting"

TaskSettled(t) == t.result # "undefined" /\ t.finishedAt # Undef

VoteIsSettled(v) ==
  v.finishedAt # Undef /\ (v.votedFor # NoModel \/ v.error)

\* C5: a round is in phase voting (or beyond it, scored) only with both
\* answer tasks settled (result and finish time), and it is scored and done
\* only with every vote settled (vote cast or abstention).
C5_PhaseStartsAfterJoin ==
  \A id \in RoundIds :
    rounds[id] # NoRound =>
      /\ (rounds[id].phase = "voting" \/ rounds[id].scoreA # Undef)
           => \A k \in 1 .. 2 : TaskSettled(rounds[id].answerTasks[k])
      /\ rounds[id].scoreA # Undef
           => /\ rounds[id].phase = "done"
              /\ rounds[id].votes # <<>>
              /\ \A k \in DOMAIN rounds[id].votes :
                   VoteIsSettled(rounds[id].votes[k])

\* a scored round with one vote cast and one abstention
C5_Witness ==
  /\ pc = "display"
  /\ \E i, j \in DOMAIN rounds[cur].votes :
       /\ rounds[cur].votes[i].error
       /\ rounds[cur].votes[j].votedFor # NoModel

ValidAt == { k \in DOMAIN fnScript : fnScript[k] = "valid" }

FirstValid == CHOOSE k \in ValidAt : \A j \in ValidAt : k <= j

\* C6: when fn first gives a valid result at its N-th invocation, N <=
\* retries, withRetry does not throw, invokes fn at most N times, and when
\* it returns it returns the N-th result after exactly N invocations.
C6_ReturnsNthResultAfterNCalls ==
  (wrPc # "idle" /\ ValidAt # {}) =>
    /\ wrPc # "threw"
    /\ fnCalls <= FirstValid
    /\ wrPc = "returned" =>
         /\ settled = [result |-> FirstValid]
         /\ fnCalls = FirstValid

\* success on the last allowed attempt, after failures
C6_Witness ==
  /\ wrPc = "returned"
  /\ retries >= 2
  /\ fnCalls = retries

ErrorOf(k) ==
  IF fnScript[k] = "throw" THEN [thrown |-> k] ELSE [validation |-> k]

\* C7: when no invocation of fn gives a valid result, withRetry does not
\* return, invokes fn at most `retries` times, and when it throws it has
\* invoked fn exactly `retries` times and throws the error of the last one.
C7_ThrowsLastErrorAfterRetriesCalls ==
  (wrPc # "idle" /\ ValidAt = {}) =>
    /\ wrPc # "returned"
    /\ fnCalls <= retries
    /\ wrPc = "threw" =>
         /\ fnCalls = retries
         /\ settled = ErrorOf(retries)

\* exhaustion where the first and the last attempt failed differently
C7_Witness ==
  /\ wrPc = "threw"
  /\ retries >= 2
  /\ fnScript[1] # fnScript[retries]

\* C8: the k-th delay slept is k * 1000 ms, so the delays increase
\* strictly; one delay follows each failed attempt but the last allowed
\* one, none follows a successful attempt.
C8_LinearBackoffBetweenAttempts ==
  wrPc # "idle" =>
    /\ \A k \in DOMAIN sleeps : sleeps[k] = k * 1000
    /\ \A k \in 1 .. Len(sleeps) - 1 : sleeps[k] < sleeps[k + 1]
    /\ Len(sleeps) = IF wrPc = "sleep" THEN fnCalls ELSE fnCalls - 1
    /\ wrPc = "sleep" => fnCalls < retries
    /\ Len(sleeps) <= retries - 1

\* exhaustion of three attempts: two delays slept
C8_Witness ==
  /\ wrPc = "threw"
  /\ sleeps = <<1000, 2000>>

Distinct(s) == \A i, j \in DOMAIN s : i # j => s[i] # s[j]

VotesFor(rd, m) ==
  Cardinality({ k \in DOMAIN rd.votes : rd.votes[k].votedFor = m })

\* C10: the step that scores a round with strictly more votes for one
\* contestant adds exactly one to that contestant's standings entry, leaves
\* every other entry as it was, and records a higher score for the winner.
C10_WinnerGetsExactlyOneWin ==
  [][ (pc = "votes" /\ pc' = "display") =>
        LET rd == rounds'[cur]
            a == rd.contestants[1]
            b == rd.contestants[2]
        IN /\ VotesFor(rd, a) > VotesFor(rd, b) =>
                /\ scores' = [scores EXCEPT ![a] = scores[a] + 1]
                /\ rd.scoreA > rd.scoreB
           /\ VotesFor(rd, b) > VotesFor(rd, a) =>
                /\ scores' = [scores EXCEPT ![b] = scores[b] + 1]
                /\ rd.scoreB > rd.scoreA ]_vars

\* a round scored for contestant B, who now has one win
C10_Witness ==
  /\ pc = "display"
  /\ rounds[cur].scoreB > rounds[cur].scoreA
  /\ scores[rounds[cur].contestants[2]] = 1

\* C11: the step that scores a round with as many resolved votes for one
\* contestant as for the other (0-0 when every voter abstained included)
\* changes no standings entry and records two equal scores.
C11_TieAwardsNoPoint ==
  [][ (pc = "votes" /\ pc' = "display") =>
        LET rd == rounds'[cur]
        IN VotesFor(rd, rd.contestants[1]) = VotesFor(rd, rd.contestants[2])
             => /\ scores' = scores
                /\ rd.scoreA = rd.scoreB
                /\ rd.scoreA # Undef ]_vars

\* a round scored 0-0: every voter abstained
C11_Witness ==
  /\ pc = "display"
  /\ rounds[cur].votes # <<>>
  /\ \A k \in DOMAIN rounds[cur].votes : rounds[cur].votes[k].error
  /\ rounds[cur].scoreA = 0
  /\ rounds[cur].scoreB = 0
  /\ scores = ZeroScores

PromptErrored(rd) == rd.promptTask.error # "undefined"

\* C12: the step in which the prompt call of a round of the current
\* generation gives up (the round goes from the prompt phase straight into
\* the history) leaves the round in phase done with an error marker on its
\* prompt task and changes no standings entry; and a round with that marker
\* never has an answer task started, a vote or a score.
C12_PromptFailureEndsRoundUnscored ==
  /\ [][ (pc = "prompt" /\ ~Stale /\ generation' = generation
            /\ completed' # completed)
           => /\ completed' = Append(completed, cur)
              /\ PromptErrored(rounds'[cur])
              /\ rounds'[cur].promptTask.finishedAt # Undef
              /\ rounds'[cur].phase = "done"
              /\ scores' = scores ]_vars
  /\ [](\A id \in RoundIds :
          (rounds[id] # NoRound /\ PromptErrored(rounds[id]))
            => /\ rounds[id].phase = "done"
               /\ rounds[id].prompt = "undefined"
               /\ \A k \in 1 .. 2 :
                    /\ rounds[id].answerTasks[k].startedAt = 0
                    /\ rounds[id].answerTasks[k].result = "undefined"
               /\ rounds[id].votes = <<>>
               /\ rounds[id].scoreA = Undef
               /\ rounds[id].scoreB = Undef)

\* a round whose prompt call failed is in the history and the next round
\* has started
C12_Witness ==
  /\ pc = "prompt"
  /\ completed # <<>>
  /\ PromptErrored(rounds[Last(completed)])
  /\ rounds[cur].num = rounds[Last(completed)].num + 1

\* C13: the step in which the prompt call of a round of the current
\* generation gives up hands the terminal round to saveRound exactly once
\* (one row more in the archive, the round's record) before the loop goes
\* on to the next round.
C13_PromptFailureIsArchived ==
  [][ (pc = "prompt" /\ ~Stale /\ generation' = generation
         /\ completed' # completed)
        => archive' = Append(archive, rounds'[cur]) ]_vars

\* C14: the step in which one answer call of a round of the current
\* generation gives up records the task with an error marker, the
\* placeholder answer and a finish time, and leaves the sibling task alone:
\* a sibling still in flight stays in flight and the round stays in the
\* answer phase; with the sibling already settled the round enters the vote
\* phase with two answers, still the active round, not in the history.
C14_AnswerFailureDoesNotAbortRound ==
  [][ \A i \in 1 .. 2 :
        ( /\ pc = "answers" /\ ~Stale /\ generation' = generation
          /\ rounds[cur].answerTasks[i].error = "undefined"
          /\ rounds'[cur].answerTasks[i].error # "undefined" )
        => LET j == 3 - i
               rd == rounds'[cur]
           IN /\ rd.answerTasks[i].result = "[no answer]"
              /\ rd.answerTasks[i].finishedAt # Undef
              /\ rd.answerTasks[j] = rounds[cur].answerTasks[j]
              /\ active' = cur
              /\ completed' = completed
              /\ scores' = scores
              /\ IF ansSt[j] = "returned"
                 THEN /\ rd.phase = "voting"
                      /\ rd.answerTasks[j].result # "undefined"
                      /\ Len(rd.votes) = Len(voters)
                 ELSE /\ rd.phase = "answering"
                      /\ pc' = "answers"
                      /\ ansSt'[j] = "calling" ]_vars

\* the vote calls of a round are in flight, one of its answers being the
\* placeholder of a failed call and the other a real answer
C14_Witness ==
  /\ pc = "votes"
  /\ ~Stale
  /\ \E i \in 1 .. 2 :
       /\ rounds[cur].answerTasks[i].error # "undefined"
       /\ rounds[cur].answerTasks[i].result = "[no answer]"
       /\ rounds[cur].answerTasks[3 - i].error = "undefined"
       /\ rounds[cur].answerTasks[3 - i].result = "text"

Abstentions(rd) == Cardinality({ k \in DOMAIN rd.votes : rd.votes[k].error })

\* C15: the step in which a vote call of a round of the current generation
\* gives up records an abstention (error marker, finish time, no votedFor)
\* and leaves every other vote alone: votes still in flight stay in flight
\* and the round stays in the vote phase; with all others settled the round
\* is done and scored from the votes that were cast, 100 per vote.
C15_VoteFailureIsAbstention ==
  [][ \A i \in DOMAIN voteSt :
        ( /\ pc = "votes" /\ ~Stale /\ generation' = generation
          /\ ~rounds[cur].votes[i].error
          /\ rounds'[cur].votes[i].error )
        => LET rd == rounds'[cur]
               others == DOMAIN voteSt \ {i}
           IN /\ rd.votes[i].votedFor = NoModel
              /\ rd.votes[i].finishedAt # Undef
              /\ \A k \in others : rd.votes[k] = rounds[cur].votes[k]
              /\ active' = cur
              /\ IF \A k \in others : voteSt[k] = "returned"
                 THEN /\ rd.phase = "done"
                      /\ pc' = "display"
                      /\ rd.scoreA = 100 * VotesFor(rd, rd.contestants[1])
                      /\ rd.scoreB = 100 * VotesFor(rd, rd.contestants[2])
                      /\ rd.scoreA + rd.scoreB
                           = 100 * (Len(rd.votes) - Abstentions(rd))
                 ELSE /\ rd.phase = "voting"
                      /\ pc' = "votes"
                      /\ \A k \in others : voteSt'[k] = voteSt[k]
                      /\ scores' = scores ]_vars

\* a round scored 100-0 from one vote cast, the other voter abstained
C15_Witness ==
  /\ pc = "display"
  /\ Abstentions(rounds[cur]) = 1
  /\ rounds[cur].scoreA = 100
  /\ rounds[cur].scoreB = 0
  /\ scores[rounds[cur].contestants[1]] >= 1

\* C16: for either value of the coin flip and either reply, the contestant
\* the game loop records in votedFor is the author of the answer shown
\* under the label the voter replied with, and the bulk runner counts the
\* vote for the same contestant.
C16_VoteMapsBackToAuthor ==
  recorded # NoRecord =>
    /\ recorded.game =
         (IF ballot.reply = "A" THEN recorded.first ELSE recorded.second)
    /\ recorded.game = recorded.bulk

\* answer B was shown first and the voter replied "A": the vote is
\* contestant B's
C16_Witness ==
  /\ recorded # NoRecord
  /\ ~CoinFlip(ballot.draw)
  /\ ballot.reply = "A"
  /\ recorded.first = ballot.contB
  /\ recorded.game = ballot.contB

\* the rounds the for loop has still to run, r included
RoundsLeft(rn, end) == IF end = Infinity THEN Infinity ELSE end - rn + 1

\* C17: every step that assigns a new round to state.active is taken with
\* the pause flag clear; and no step taken while runGame waits at the pause
\* gate lowers the number of rounds it has still to run, and the round
\* counter stays as it is for as long as it waits.
C17_NoRoundCreatedWhilePaused ==
  [][ /\ (active' # NoId /\ active' # active) => (~isPaused /\ ~isPaused')
      /\ pc = "paused" =>
           /\ pc' = "paused" => (r' = r /\ endRound' = endRound)
           /\ IF endRound = Infinity THEN endRound' = Infinity
              ELSE RoundsLeft(r', endRound') >= RoundsLeft(r, endRound) ]_vars

\* the first round after a reset (which sets the pause flag) has been
\* created: resume had cleared the flag when runGame passed the gate
C17_Witness ==
  /\ pc = "prompt"
  /\ generation > 0
  /\ roundGeneration = generation
  /\ active = cur
  /\ rounds[cur].num = 1
  /\ ~isPaused

Archived(id) == \E k \in DOMAIN archive : archive[k] = rounds[id]

\* round id is the round in progress, of the current generation, and the
\* game is paused
PausedInProgress(id) == cur = id /\ InFlight /\ ~Stale /\ isPaused

\* round id has run to its end: scored, in the history and archived
RanToEnd(id) ==
  /\ rounds[id] # NoRound
  /\ rounds[id].phase = "done"
  /\ rounds[id].scoreA # Undef
  /\ rounds[id].scoreB # Undef
  /\ id \in Range(completed)
  /\ Archived(id)

\* C18: a round in progress when the game is paused still runs to its end
\* (scored, standings updated at scoring, in the history, archived) whether
\* or not the pause flag is ever cleared, when no reset comes and every
\* backend call settles, unless its prompt call fails; the cases left out
\* are those where the loop stops at the bounds of the model.  (With no
\* reset every round is of generation 0.)
C18_PauseDoesNotStallRound ==
  \A id \in { i \in RoundIds : i[1] = 0 } :
    PausedInProgress(id)
      ~> \/ RanToEnd(id)
         \/ rounds[id] # NoRound /\ PromptErrored(rounds[id])
         \/ pc = "capped"

\* runGame waits at the pause gate, the flag set during the round that has
\* just been scored for contestant A, archived and put into the history
C18_Witness ==
  /\ pc = "paused"
  /\ isPaused
  /\ generation = 0
  /\ completed # <<>>
  /\ RanToEnd(Last(completed))
  /\ rounds[Last(completed)] # PriorRound
  /\ rounds[Last(completed)].scoreA > rounds[Last(completed)].scoreB
  /\ scores[rounds[Last(completed)].contestants[1]] >= 1

\* C19: the step in which runGame is called and creates its first round
\* gives that round the number of the last round of the history it finds,
\* plus one, or 1 when the history is empty; the round counter is at that
\* number.
C19_FirstRoundFollowsHistory ==
  [][ (pc = "start" /\ active' # NoId) =>
        /\ active' = cur'
        /\ rounds'[cur'].num =
             (IF completed = <<>> THEN 1
              ELSE rounds[Last(completed)].num + 1)
        /\ r' = rounds'[cur'].num ]_vars

\* started on an archive whose last round is number PriorNum, the first
\* round is number PriorNum + 1
C19_Witness ==
  /\ pc = "prompt"
  /\ calls = 1
  /\ generation = 0
  /\ Len(completed) = 1
  /\ rounds[completed[1]] = PriorRound
  /\ rounds[cur].num = PriorNum + 1

\* the rounds of the history that runGame created
Created == { k \in DOMAIN completed : rounds[completed[k]] # PriorRound }

PhaseRank(ph) ==
  CASE ph = "prompting" -> 1 [] ph = "answering" -> 2
    [] ph = "voting" -> 3 [] ph = "done" -> 4

\* round number n as a publication shows it (in the active slot or as the
\* last of the history), NoRound when it shows no such round
ShownRound(p, n) ==
  IF p.shown.active.num = n THEN p.shown.active
  ELSE IF p.shown.lastCompleted.num = n THEN p.shown.lastCompleted
  ELSE NoRound

\* y shows nothing less than x: the phase is not behind, and what x shows
\* as settled (prompt, answer task, vote) y shows unchanged
NoRegress(x, y) ==
  /\ PhaseRank(y.phase) >= PhaseRank(x.phase)
  /\ x.promptTask.finishedAt # Undef => y.promptTask = x.promptTask
  /\ x.prompt # "undefined" => y.prompt = x.prompt
  /\ \A k \in 1 .. 2 :
       x.answerTasks[k].finishedAt # Undef => y.answerTasks[k] = x.answerTasks[k]
  /\ x.votes # <<>> =>
       /\ DOMAIN y.votes = DOMAIN x.votes
       /\ \A k \in DOMAIN x.votes :
            x.votes[k].finishedAt # Undef => y.votes[k] = x.votes[k]
  /\ x.scoreA # Undef => (y.scoreA = x.scoreA /\ y.scoreB = x.scoreB)

\* the publications of a step of runGame, preceded by the last one before
LastAndNew == IF pubs = <<>> THEN pubs' ELSE <<pubs[Len(pubs)]>> \o pubs'

\* C21: of two successive publications of runGame made under the same
\* generation counter, the later shows every round that both show no less
\* complete than the earlier: phase not behind, and every task or vote shown
\* as settled shown again with the same result, error marker and side.
C21_PublishedRoundNeverRegresses ==
  [][ (isPaused' = isPaused /\ generation' = generation) =>
        \A k \in 1 .. Len(LastAndNew) - 1, n \in 1 .. MaxRoundNum :
          LET a == LastAndNew[k]
              b == LastAndNew[k + 1]
          IN (a.gen = b.gen /\ ShownRound(a, n) # NoRound
                /\ ShownRound(b, n) # NoRound)
               => NoRegress(ShownRound(a, n), ShownRound(b, n)) ]_vars

\* the last vote of a round has settled: one publication shows the round in
\* the vote phase with every vote settled, the next shows it scored
C21_Witness ==
  /\ pc = "display"
  /\ Len(pubs) = 2
  /\ pubs[1].shown.active.phase = "voting"
  /\ \A k \in DOMAIN pubs[1].shown.active.votes :
       pubs[1].shown.active.votes[k].finishedAt # Undef
  /\ pubs[2].shown.active.phase = "done"
  /\ pubs[2].shown.active.votes = pubs[1].shown.active.votes

NoDuplicates(ps) ==
  \A j, k \in DOMAIN ps : j # k => ps[j] # ps[k]

SettledTask(t) ==
  t.finishedAt # Undef /\ (t.result # "undefined" \/ t.error # "undefined")

\* C22: a step in which a prompt, answer or vote call of a round of the
\* current generation settles publishes first the round with that one task
\* settled and every sibling record as it was before the step, still in the
\* phase the task belongs to (a failed prompt ends the round); whatever the
\* step publishes after that shows a later state, none of them the same
\* state twice.
C22_SettlementPublishesOnce ==
  [][ ( /\ isPaused' = isPaused /\ generation' = generation /\ ~Stale
        /\ vars' # vars
        /\ pc \in {"prompt", "answers", "votes"} )
      => /\ pubs' # <<>>
         /\ NoDuplicates(pubs')
         /\ LET before == rounds[cur]
                first == ShownRound(pubs'[1], before.num)
            IN /\ first # NoRound
               /\ pc = "prompt" =>
                    /\ SettledTask(first.promptTask)
                    /\ first.promptTask = rounds'[cur].promptTask
                    /\ first.answerTasks = before.answerTasks
                    /\ first.votes = before.votes
                    /\ first.phase \in {"prompting", "done"}
               /\ pc = "answers" =>
                    \E i \in 1 .. 2 :
                      /\ ansSt[i] = "calling"
                      /\ before.answerTasks[i].finishedAt = Undef
                      /\ SettledTask(first.answerTasks[i])
                      /\ first.answerTasks[i] = rounds'[cur].answerTasks[i]
                      /\ first.answerTasks[3 - i] = before.answerTasks[3 - i]
                      /\ first.promptTask = before.promptTask
                      /\ first.votes = before.votes
                      /\ first.phase = "answering"
               /\ pc = "votes" =>
                    \E i \in DOMAIN voteSt :
                      /\ voteSt[i] = "calling"
                      /\ before.votes[i].finishedAt = Undef
                      /\ VoteIsSettled(first.votes[i])
                      /\ first.votes[i] = rounds'[cur].votes[i]
                      /\ \A k \in DOMAIN voteSt \ {i} :
                           first.votes[k] = before.votes[k]
                      /\ first.answerTasks = before.answerTasks
                      /\ first.phase = "voting"
                      /\ first.scoreA = Undef ]_vars

\* the first of two answers has settled: one publication, which shows it
\* settled and the sibling still running
C22_Witness ==
  /\ pc = "answers"
  /\ ~Stale
  /\ Len(pubs) = 1
  /\ \E i \in 1 .. 2 :
       /\ ansSt[i] = "returned"
       /\ ansSt[3 - i] = "calling"
       /\ SettledTask(pubs[1].shown.active.answerTasks[i])
       /\ pubs[1].shown.active.answerTasks[3 - i].finishedAt = Undef

\* what a task handler writes to its task record
Outcome(t) == <<t.result, t.error, t.finishedAt>>

\* C23: whatever the order in which the calls of a phase settle, a step
\* changes the outcome of at most one answer task, or at most one vote, of
\* a round: the one whose call settles in that step, in its own phase,
\* which was open until then; a settled record is never written again.
C23_OneWriterPerTaskRecord ==
  [][ \A id \in RoundIds :
        (rounds[id] # NoRound /\ rounds'[id] # NoRound) =>
          /\ \A k \in 1 .. 2 :
               Outcome(rounds'[id].answerTasks[k])
                   # Outcome(rounds[id].answerTasks[k])
                 => /\ pc = "answers" /\ cur = id
                    /\ ansSt[k] = "calling"
                    /\ pc' # "answers" \/ ansSt'[k] = "returned"
                    /\ rounds[id].answerTasks[k].finishedAt = Undef
                    /\ rounds'[id].answerTasks[3 - k]
                         = rounds[id].answerTasks[3 - k]
          /\ rounds[id].votes # <<>> =>
               /\ DOMAIN rounds'[id].votes = DOMAIN rounds[id].votes
               /\ \A k \in DOMAIN rounds[id].votes :
                    rounds'[id].votes[k] # rounds[id].votes[k]
                      => /\ pc = "votes" /\ cur = id
                         /\ voteSt[k] = "calling"
                         /\ pc' # "votes" \/ voteSt'[k] = "returned"
                         /\ rounds[id].votes[k].finishedAt = Undef
                         /\ \A j \in DOMAIN rounds[id].votes \ {k} :
                              rounds'[id].votes[j] = rounds[id].votes[j] ]_vars

\* the calls settled out of order: the second answer and the second vote
\* are recorded, the first of each still open
C23_Witness ==
  /\ pc = "votes"
  /\ ~Stale
  /\ Len(voteSt) >= 2
  /\ voteSt[1] = "calling"
  /\ voteSt[2] = "returned"
  /\ rounds[cur].votes[1].finishedAt = Undef
  /\ rounds[cur].votes[2].finishedAt # Undef

\* C24: a step of the game loop (the generation stays) that changes the
\* standings is the step that takes the current round from "voting" to
\* "done", so the standings change for a round that is done and never
\* while it is prompting, answering or voting; a round that is done does
\* not leave that phase, so it is scored at most once.
C24_StandingsChangeOnlyWhenDone ==
  [][ /\ (generation' = generation /\ scores' # scores) =>
           /\ cur # NoId /\ cur' = cur
           /\ rounds[cur].phase = VotingPhase
           /\ rounds'[cur].phase = DonePhase
      /\ \A id \in RoundIds :
           (rounds[id] # NoRound /\ rounds[id].phase = DonePhase
              /\ rounds'[id] # NoRound)
             => rounds'[id].phase = DonePhase ]_vars

\* a round has been scored: it is done and a contestant has its win
C24_Witness ==
  /\ pc = "display"
  /\ ~Stale
  /\ rounds[cur].phase = DonePhase
  /\ rounds[cur].scoreA > rounds[cur].scoreB
  /\ scores[rounds[cur].contestants[1]] > 0

\* round id is in the hands of the loop, one of its three phases running
InPhase(id) == cur = id /\ pc \in {"prompt", "answers", "votes"}

\* every task of rd that has settled shows how: the prompt and the answers
\* by a text or an error (a failed answer with its placeholder as well), a
\* vote by the contestant named or the abstention mark
FailuresRecorded(rd) ==
  /\ rd.promptTask.finishedAt # Undef =>
       (rd.promptTask.result # "undefined") # PromptErrored(rd)
  /\ \A k \in 1 .. 2 :
       rd.answerTasks[k].finishedAt # Undef =>
         \/ rd.answerTasks[k].result = "text"
              /\ rd.answerTasks[k].error = "undefined"
         \/ rd.answerTasks[k].result = "[no answer]"
              /\ rd.answerTasks[k].error # "undefined"
  /\ \A k \in DOMAIN rd.votes :
       rd.votes[k].finishedAt # Undef =>
         (rd.votes[k].votedFor # NoModel) # rd.votes[k].error

\* C25: whatever calls fail, no failure leaves the loop (runGame never ends
\* by an exception), each settled task of a round shows a result or its
\* failure, a round in one of its phases comes to phase "done", and from a
\* round that is done the loop goes on to the next iteration; no reset
\* comes, every call settles, and the cases left out are those where the
\* loop stops at the bounds of the model.
C25_FailuresNeverEscapeTheLoop ==
  /\ [](pc # "thrown")
  /\ [](\A id \in RoundIds :
          (rounds[id] # NoRound /\ rounds[id] # PriorRound)
            => FailuresRecorded(rounds[id]))
  /\ \A id \in { i \in RoundIds : i[1] = 0 } :
       /\ InPhase(id) ~>
            (pc = "capped"
               \/ (rounds[id] # NoRound /\ rounds[id].phase = DonePhase))
       /\ (cur = id /\ rounds[id] # NoRound /\ rounds[id].phase = DonePhase)
            ~> (pc = "capped" \/ r > rounds[id].num \/ rounds[id] = NoRound)

\* both answers of a round failed and every voter abstained; the round is
\* done, in the history, and the next round is at its prompt
C25_Witness ==
  /\ pc = "prompt"
  /\ ~Stale
  /\ completed # <<>>
  /\ rounds[Last(completed)] # PriorRound
  /\ rounds[Last(completed)].phase = DonePhase
  /\ \A k \in 1 .. 2 :
       rounds[Last(completed)].answerTasks[k].error # "undefined"
  /\ Abstentions(rounds[Last(completed)]) = Len(rounds[Last(completed)].votes)
  /\ Len(rounds[Last(completed)].votes) > 0
  /\ rounds[cur].num = rounds[Last(completed)].num + 1

\* C26: the step of an accepted reset, the only step that changes the
\* generation, raises it by one and in the same step leaves the active slot
\* empty, every standings entry at zero, the history empty and the archive
\* cleared.
C26_ResetIsAtomic ==
  [][ generation' # generation =>
        /\ generation' = generation + 1
        /\ active' = NoId
        /\ scores' = ZeroScores
        /\ completed' = <<>>
        /\ archive' = <<>> ]_vars

\* a reset has come during the display pause of a round that had given a
\* contestant a win: slot, standings, history and archive are clear
C26_Witness ==
  /\ generation = 1
  /\ pc = "display"
  /\ Stale
  /\ rounds[cur].scoreA > rounds[cur].scoreB
  /\ active = NoId
  /\ scores = ZeroScores
  /\ completed = <<>>
  /\ archive = <<>>

\* C27: a round record whose phase is "done" is the same after every step
\* for as long as it exists, in the active slot during the display pause,
\* in the history, or dropped from both by a reset.
C27_DoneRoundIsImmutable ==
  [][ \A id \in RoundIds :
        (rounds[id] # NoRound /\ rounds[id].phase = DonePhase
           /\ rounds'[id] # NoRound)
          => rounds'[id] = rounds[id] ]_vars

\* a scored round has gone through its display pause into the history and
\* the prompt of the round after it is under way
C27_Witness ==
  /\ pc = "prompt"
  /\ ~Stale
  /\ completed # <<>>
  /\ Last(completed) # cur
  /\ rounds[Last(completed)] # PriorRound
  /\ RanToEnd(Last(completed))

\* round rd came to "done" by being scored
Scored(rd) == rd.phase = DonePhase /\ rd.scoreA # Undef

\* C28: for a round that is done by scoring, a step of the game loop saves
\* it exactly when it appends it to the history and clears the active
\* slot: the three happen together in the step that ends the display pause
\* with the generation unchanged, after the step that scored it, and none
\* of them happens when the generation has changed; and no round is in the
\* archive twice.
C28_ArchiveAndHistoryGoTogether ==
  /\ [](\A j, k \in DOMAIN archive :
          j # k => archive[j].num # archive[k].num)
  /\ [][ (generation' = generation /\ cur # NoId /\ rounds[cur] # NoRound
            /\ Scored(rounds[cur]))
           => LET saved == archive' # archive
                  appended == completed' # completed
                               /\ cur \in Range(completed')
                               /\ cur \notin Range(completed)
                  cleared == active = cur /\ active' # cur
              IN /\ saved = appended
                 /\ saved = cleared
                 /\ saved =>
                      /\ pc = "display" /\ ~Stale
                      /\ archive' = Append(archive, rounds[cur])
                      /\ completed' = Append(completed, cur)
                 /\ (pc = "display" /\ pc' # "display") => (saved = ~Stale) ]_vars

\* the display pause of a scored round has ended, the generation unchanged:
\* the round is the last row of the archive, the last of the history, and
\* the active slot is empty
C28_Witness ==
  /\ generation = 0
  /\ active = NoId
  /\ completed # <<>>
  /\ rounds[Last(completed)] # PriorRound
  /\ Scored(rounds[Last(completed)])
  /\ archive # <<>>
  /\ archive[Len(archive)] = rounds[Last(completed)]

\* the numbers of the rounds of history comp go up by one
Consecutive(comp, rnds) ==
  \A k \in 2 .. Len(comp) : rnds[comp[k]].num = rnds[comp[k - 1]].num + 1

\* C29: in every state reached through rounds, failed prompts, pauses and
\* resets the numbers of the rounds of the history are consecutive, and a
\* step that puts a new round into the active slot gives it the number of
\* the last round of the history plus one, or 1 when the history is empty.
C29_RoundNumbersAreConsecutive ==
  /\ [] Consecutive(completed, rounds)
  /\ [][ (active' # NoId /\ active' # active) =>
           rounds'[active'].num =
             (IF completed' = <<>> THEN 1
              ELSE rounds'[Last(completed')].num + 1) ]_vars

\* after a reset the loop has started round 1 again, the round it dropped
\* behind it
C29_Witness ==
  /\ generation = 1
  /\ pc = "prompt"
  /\ ~Stale
  /\ completed = <<>>
  /\ rounds[cur].num = 1
  /\ calls >= 2

\* the value of the round counter that the step about to be taken brings
\* to the re-sync test: the counter itself after the pause gate, one more
\* after the for header
Tested == IF pc \in {"paused", "start"} THEN r ELSE r + 1

\* C30: a step that comes to the re-sync test with a counter different
\* from the number expected after the history, and creates a round, leaves
\* the counter at the expected number and the end of the budget at
\* expected + runs - 1: the rounds left to run from there are `runs`,
\* however many were played before.
C30_ResyncRestoresFullBudget ==
  [][ (pc # "start" /\ active' # NoId /\ active' # active
         /\ Tested # ExpectedRound(completed', rounds'))
        => /\ r' = ExpectedRound(completed', rounds')
           /\ rounds'[active'].num = r'
           /\ endRound' = EndOf(r', runs)
           /\ RoundsLeft(r', endRound') = runs ]_vars

\* a finite budget, a round begun, a reset: the loop has re-synced to
\* round 1 and the budget ends at round `runs`
C30_Witness ==
  /\ generation = 1
  /\ pc = "prompt"
  /\ ~Stale
  /\ runs # Infinity
  /\ r = 1
  /\ endRound = runs
  /\ calls >= 2

\* C31: in every round that has been scored the votes for the first
\* contestant, the votes for the second and the abstentions add up to the
\* number of vote records, a vote record with the error mark names nobody,
\* and the two scores are 100 times the votes for each side.
C31_AbstentionsCountForNeitherSide ==
  \A id \in RoundIds :
    (rounds[id] # NoRound /\ rounds[id] # PriorRound /\ Scored(rounds[id])) =>
      LET rd == rounds[id]
          a == VotesFor(rd, rd.contestants[1])
          b == VotesFor(rd, rd.contestants[2])
      IN /\ a + b + Abstentions(rd) = Len(rd.votes)
         /\ \A k \in DOMAIN rd.votes :
              rd.votes[k].error => rd.votes[k].votedFor = NoModel
         /\ rd.scoreA = 100 * a
         /\ rd.scoreB = 100 * b

\* a round scored 100 to 0 with one vote and one abstention
C31_Witness ==
  /\ pc = "display"
  /\ ~Stale
  /\ Scored(rounds[cur])
  /\ Len(rounds[cur].votes) = 2
  /\ Abstentions(rounds[cur]) = 1
  /\ rounds[cur].scoreA = 100
  /\ rounds[cur].scoreB = 0

\* C32 as stated: the step that scores a round of the CLI variant adds to a
\* contestant's standings entry the number of votes it got in the round.
C32_CliAwardEqualsVoteCount ==
  [][ (cliRound.phase = VotingPhase /\ cliRound'.phase = DonePhase) =>
        /\ cliScores'[CliContA] - cliScores[CliContA]
             = VotesFor(cliRound', CliContA)
        /\ cliScores'[CliContB] - cliScores[CliContB]
             = VotesFor(cliRound', CliContB) ]_vars

\* C32: the step that scores a round of the CLI variant adds to the
\* standings entry of each contestant, the loser as well as the winner,
\* its score of the round, 100 times the number of votes it got, and
\* leaves every other entry as it was.
C32_CliAwardIsRoundScore ==
  [][ (cliRound.phase = VotingPhase /\ cliRound'.phase = DonePhase) =>
        /\ cliScores'[CliContA] - cliScores[CliContA]
             = 100 * VotesFor(cliRound', CliContA)
        /\ cliScores'[CliContB] - cliScores[CliContB]
             = 100 * VotesFor(cliRound', CliContB)
        /\ \A m \in ModelNames \ {CliContA, CliContB} :
             cliScores'[m] = cliScores[m] ]_vars

\* a round won three votes to two, scored from empty standings
C32_Witness ==
  /\ cliRound.phase = DonePhase
  /\ VotesFor(cliRound, CliContA) = 3
  /\ VotesFor(cliRound, CliContB) = 2
  /\ cliScores[CliContA] = 300
  /\ cliScores[CliContB] = 200

\* C33: the step of a reset leaves the pause flag set; the flag is cleared
\* only by a step that changes nothing of the loop (the resume request);
\* and a step that creates a round starts with the flag clear.  So after a
\* reset no round is created before a resume, however long the loop waits.
C33_ResetPausesUntilResume ==
  [][ /\ generation' # generation => isPaused'
      /\ (isPaused /\ ~isPaused') =>
           /\ generation' = generation
           /\ <<pc, r, endRound, cur, active, completed, rounds, scores,
                archive, calls>>' =
              <<pc, r, endRound, cur, active, completed, rounds, scores,
                archive, calls>>
      /\ (active' # NoId /\ active' # active) => ~isPaused ]_vars

\* the loop waits at the pause gate after a reset that came while the game
\* was running unpaused: the flag is set and the active slot is empty
C33_Witness ==
  /\ generation = 1
  /\ isPaused
  /\ pc = "paused"
  /\ active = NoId
  /\ completed = <<>>

\* C34: whenever the active slot is not empty it holds the round the loop
\* created last, and the generation snapshot taken for that round is the
\* current generation: no stale round is in the slot.
C34_ActiveRoundIsCurrent ==
  active # NoId =>
    /\ active = cur
    /\ rounds[active] # NoRound
    /\ active[1] = generation
    /\ roundGeneration = generation

\* the slot holds a round created after a reset, the round the reset
\* dropped gone from it
C34_Witness ==
  /\ generation = 1
  /\ active # NoId
  /\ active = cur
  /\ roundGeneration = 1
  /\ pc = "prompt"

\* the rounds the standings stand for: the archive, and during its display
\* pause the round that has been scored and is about to be saved
Counted ==
  IF pc = "display" /\ ~Stale THEN Append(archive, rounds[cur]) ELSE archive

\* C35: in every state the standings of the game loop are the standings a
\* start-up would rebuild from the rounds they stand for (one win to the
\* contestant with the strictly higher score, none for a tie): outside a
\* display pause these are exactly the archived rounds.
C35_RebuiltStandingsEqualAccumulated ==
  scores = InitialScores(Counted)

\* the archive holds a saved round from before the start, won by its first
\* contestant, and a tie played and saved since
C35_Witness ==
  /\ pc # "display"
  /\ active = NoId
  /\ generation = 0
  /\ Len(archive) = 2
  /\ archive[1] = PriorRound
  /\ archive[2].scoreA = archive[2].scoreB
  /\ archive[2].scoreA = 100
  /\ scores[PriorRound.contestants[1]] = 1

\* every worker of the bulk runner has left its loop
AllEnded == bulkStarted /\ \A w \in 1 .. CONCURRENCY : workers[w].at = "ended"

\* C36: whatever the order in which the rounds of the workers settle,
\* runRound is called at most once for a round number, the numbers taken
\* are 1 .. currentTaskIndex, two workers never hold the same number, and
\* every number taken is either being run or counted once as completed or
\* failed; when all workers have ended every number 1 .. TOTAL_ROUNDS has
\* been run once and completedRounds + failedRounds = TOTAL_ROUNDS.
C36_EachRoundRunByOneWorker ==
  /\ \A n \in 1 .. TOTAL_ROUNDS :
       ranRound[n] = (IF n <= currentTaskIndex THEN 1 ELSE 0)
  /\ \A v, w \in 1 .. CONCURRENCY :
       (v # w /\ workers[v].at = "runRound" /\ workers[w].at = "runRound")
         => workers[v].roundNum # workers[w].roundNum
  /\ completedRounds + failedRounds
       + Cardinality({ w \in 1 .. CONCURRENCY : workers[w].at = "runRound" })
       = currentTaskIndex
  /\ AllEnded =>
       /\ \A n \in 1 .. TOTAL_ROUNDS : ranRound[n] = 1
       /\ completedRounds + failedRounds = TOTAL_ROUNDS

\* all workers have ended after rounds that completed, that returned an
\* error and that threw
C36_Witness ==
  /\ AllEnded
  /\ completedRounds >= 1
  /\ failedRounds >= 2
  /\ currentTaskIndex = TOTAL_ROUNDS

\* the calls of key k admitted at a time from a to a + WindowMs
AdmittedIn(k, a) ==
  Cardinality({ i \in DOMAIN admitted[k] :
                  a <= admitted[k][i] /\ admitted[k][i] <= a + WindowMs })

\* C37: under calls at non-decreasing times, for every key the calls
\* admitted within any span of WindowMs ticks (both ends counted) are at
\* most RateLimit, and every call returns what it would have returned had
\* no sweep ever been made.
C37_AtMostLimitPerWindow ==
  /\ \A k \in RateKeys, a \in 0 .. WindowMs + MaxClock :
       AdmittedIn(k, a) <= RateLimit
  /\ lastCall.limited = lastCall.plain

\* a key has been admitted RateLimit times within one window, a sweep has
\* since deleted the bucket of the other key, and the first key has been
\* admitted again
C37_Witness ==
  /\ lastCall.key = "admin:a"
  /\ ~lastCall.limited
  /\ Len(admitted["admin:a"]) = RateLimit + 1
  /\ admitted["admin:a"][RateLimit] - admitted["admin:a"][1] <= WindowMs
  /\ lastRateWindowSweep > WindowMs
  /\ "admin:b" \in DOMAIN unswept
  /\ "admin:b" \notin DOMAIN requestWindows

\* the connections recorded on side x
VotersOn(x) == { c \in DOMAIN viewerVoters : viewerVoters[c] = x }

\* C38: in a voting window that began with viewerVoters empty, after any
\* messages from any connections, each connection that has had a vote
\* taken is recorded once, on the side of its latest such vote, the two
\* counts are the numbers of connections on each side (so their sum is the
\* number of connections that have voted), and a step taken outside the
\* voting phase or after the deadline changes neither the counts nor the
\* record.
C38_ViewerVotesCountConnections ==
  /\ [](/\ viewerVoters = latestVote
        /\ OrZero(viewerRound.viewerVotesA) = Cardinality(VotersOn("A"))
        /\ OrZero(viewerRound.viewerVotesB) = Cardinality(VotersOn("B"))
        /\ OrZero(viewerRound.viewerVotesA) + OrZero(viewerRound.viewerVotesB)
             = Cardinality(DOMAIN latestVote))
  /\ [][ (viewerRound.phase # VotingPhase
            \/ viewerNow > viewerRound.viewerVotingEndsAt)
           => /\ viewerVoters' = viewerVoters
              /\ viewerRound'.viewerVotesA = viewerRound.viewerVotesA
              /\ viewerRound'.viewerVotesB = viewerRound.viewerVotesB ]_vars

\* two connections have voted, one of them has changed sides, and the
\* deadline has passed
C38_Witness ==
  /\ viewerNow > ViewerEndsAt
  /\ viewerRound.phase = VotingPhase
  /\ viewerRound.viewerVotesA = 0
  /\ viewerRound.viewerVotesB = 2
  /\ Cardinality(DOMAIN viewerVoters) = 2

\* the pause flag, the generation counter, the standings, the completed
\* history, the archive and the active round
Guarded == <<isPaused, generation, scores, completed, archive, active, rounds>>

\* C39: a pause, resume or reset request that is not authorized (no
\* ADMIN_SECRET configured, no secret provided or a different one), or that
\* the rate limiter turns away, and the rest of a reset request whose
\* confirmation is not "RESET", leave the pause flag, the generation, the
\* standings, the history, the archive and the active round as they were,
\* and their handler calls no broadcast.
C39_RejectedAdminRequestChangesNothing ==
  [][ /\ \A path \in AdminPaths, provided \in Secrets :
           ( /\ \/ adminSecret = ""
                \/ provided = ""
                \/ provided # adminSecret
                \/ lastCall'.limited
             /\ AdminHandled(path, provided, lastCall'.limited) )
           => /\ Guarded' = Guarded
              /\ ~adminLast'.broadcast
              /\ adminLast'.status \in {401, 429}
      /\ \A confirm \in Confirms \ {"RESET"} :
           ResetBody(confirm)
           => /\ Guarded' = Guarded
              /\ ~adminLast'.broadcast
              /\ adminLast'.status = 400 ]_vars

\* with a secret configured, the server paused by an accepted request and a
\* round in the history, the last request has been turned away
C39_Witness ==
  /\ adminSecret = "s1"
  /\ isPaused
  /\ completed # <<>>
  /\ adminLast.status = 401
  /\ lastCall.key = AdminKey
  /\ parsing = 0

====
